---- MODULE Spec2Model ----
(***************************************************************************)
(* A model of the LIDAR ingestion pipeline of lidar_data:                  *)
(*   src/src/lib/load-pointcloud.ts  loadPointCloud (async, suspends at    *)
(*                                   every await)                          *)
(*   src/src/App.tsx                 loadLayer, the caller                 *)
(*                                                                         *)
(* Numbers.  Coordinates are integers counted in a fixed binary unit, so   *)
(* that double arithmetic on them is exact and the store into a            *)
(* Float32Array is the real rounding to a 24-bit significand (Fround).     *)
(* Progress values are exact fractions <<numerator, denominator>>.         *)
(*                                                                         *)
(* Scale.  The source keeps at most 500000 points and yields every 50000   *)
(* points.  The state machine walks the loops point by point, so it runs   *)
(* with the cap Cap and the chunk Chunk below; the stride arithmetic is    *)
(* also evaluated with the source's cap MAX_POINTS on SourceTotals.        *)
(***************************************************************************)
EXTENDS Integers, Sequences, FiniteSets, TLC

\* ------------------------------------------------------------------ bounds
\* cap and chunk size under which the loops are enumerated
Cap == 4
Chunk == 2
\* largest vertexCount the decoder reports in the model
MaxVertices == 7
\* most layers the application holds
MaxLayers == 2

\* --------------------------------------------------------------- constants
MAX_POINTS == 500000

\* Infinity, -Infinity and NaN of the double arithmetic, as numbers outside
\* the range of every coordinate of the model
Infinity == 1073741824
NaN == 1073741825
NegInfinity == -Infinity

TwoTo24 == 16777216

\* ------------------------------------------------------------- arithmetic
Abs(v) == IF v < 0 THEN -v ELSE v

\* Math.ceil(a / b) for b > 0
Ceil(a, b) == -((-a) \div b)

\* the spacing of the floats around a, a >= 0: 1 below 2^24, doubling with
\* every further bit
RECURSIVE Ulp(_)
Ulp(a) == IF a < TwoTo24 THEN 1 ELSE 2 * Ulp(a \div 2)

\* the store of a double into a Float32Array element: round to nearest with
\* a 24-bit significand, ties to the even significand
Fround(v) ==
    LET a == Abs(v)
        q == Ulp(a)
        m == a \div q
        r == a - m * q
        up == \/ 2 * r > q
              \/ (2 * r = q /\ m % 2 = 1)
        rounded == IF up THEN (m + 1) * q ELSE m * q
    IN  (IF v < 0 THEN -1 ELSE 1) * rounded

\* the store into a Uint8Array element
ToUint8(v) == v % 256

\* fractions
Frac(n, d) == <<n, d>>
FracLE(a, b) == a[1] * b[2] <= b[1] * a[2]
FracEq(a, b) == a[1] * b[2] = b[1] * a[2]

\* ------------------------------------------------------------ subsampling
\* variant: Math.floor in place of Math.ceil
StepOfFloor(totalPoints, cap) ==
    IF totalPoints > cap THEN totalPoints \div cap ELSE 1

\* step = totalPoints > MAX_POINTS ? Math.ceil(totalPoints / MAX_POINTS) : 1
StepOf(totalPoints, cap) ==
    IF totalPoints > cap THEN Ceil(totalPoints, cap) ELSE 1

\* variant: every source point is kept
CountOfEvery(totalPoints, stride) == totalPoints

\* variant: one more than the whole quotient
CountOfPlusOne(totalPoints, stride) == totalPoints \div stride + 1

\* pointCount = Math.ceil(totalPoints / step)
CountOf(totalPoints, stride) == Ceil(totalPoints, stride)

\* ------------------------------------------------------------ environment
\* toWGS84.forward([utmX, utmY]) of the external projection library: a fixed
\* map of both inputs to an even number of units on each axis
Forward(utmX, utmY) == <<2 * (utmX + utmY), 2 * (utmY - utmX)>>

\* the source points a decoded record set is made of: <<easting, northing,
\* elevation>>
PointSet == { <<0, 0, 0>>, <<TwoTo24, 1, TwoTo24 + 1>> }

\* Float64Array POSITION.value of n points pts[1..n]: [x,y,z,x,y,z,...]
FlatPositions(pts) ==
    [j \in 1..(3 * Len(pts)) |-> pts[((j - 1) \div 3) + 1][((j - 1) % 3) + 1]]

\* the optional attribute buffers of the decoder, by source index k >= 0
RawIntensityAt(k) == ((k + 1) * 9001) % 65536
RawClassificationAt(k) == (k * 5 + 2) % 256
RawColorAt(k, c) == (k * 50 + c * 7 + 10) % 256

\* a record set as the decoder returns it.  colorSize is COLOR_0.size, 0
\* when the attribute is absent
MeshOf(n, pts, hasPos, cs, hasI, hasC) ==
    [ vertexCount |-> n,
      hasPosition |-> hasPos,
      POSITION |-> FlatPositions(pts),
      colorSize |-> cs,
      hasIntensity |-> hasI,
      hasClassification |-> hasC ]

Meshes ==
    UNION { { MeshOf(n, pts, hasPos, cs, hasI, hasC) :
                pts \in [1..(IF n < 0 THEN 0 ELSE n) -> PointSet],
                hasPos \in IF n = 1 THEN BOOLEAN ELSE {TRUE},
                cs \in {0, 3, 4},
                hasI \in BOOLEAN,
                hasC \in BOOLEAN } :
            n \in (-1)..MaxVertices }

\* the bytes of a source: its length and the three header bytes the loader
\* looks at
Header(len, ma, mi, fb) ==
    [byteLength |-> len, versionMajor |-> ma, versionMinor |-> mi, formatByte |-> fb]

Buffers ==
    { Header(100, 1, 4, 6),
      Header(400, 1, 2, 0), Header(400, 1, 3, 4), Header(400, 2, 4, 6),
      Header(400, 1, 4, 3), Header(400, 1, 4, 4),
      Header(400, 1, 4, 67), Header(400, 1, 4, 134) }

NoBuffer == Header(-1, 0, 0, 0)

\* the locals versionMajor, versionMinor, pointFormatId before they are read
NoHeader == [versionMajor |-> -1, versionMinor |-> -1, pointFormatId |-> -1]

\* ------------------------------------------------------------------ state
VARIABLES
    \* App.tsx state
    loading, progress, layers, alert,
    \* the file behind the source: what the decoder makes of it
    mesh,
    \* the loadPointCloud call in flight (or the last one)
    pc, source, arrayBuffer, header, decoderCalls, error, progressLog,
    totalPoints, step, pointCount,
    lngLat, intensities, classifications, hasIntensities, hasClassifications,
    bounds, i, visited, result, sinceYield,
    cmName, cmT, cmColor,
    pointCloud, settings, colorizePc, colorizeDepth, colorized,
    corridor, profilePc, profile,
    \* App.tsx state of the cross-section tool, and the last user event
    crossSection, profileData, lastEvent

appVars == <<loading, progress, layers, alert>>
callVars == <<pc, source, arrayBuffer, header, decoderCalls, error, progressLog,
              totalPoints, step, pointCount, lngLat, intensities,
              classifications, hasIntensities, hasClassifications,
              bounds, i, visited, result, sinceYield>>
\* the state of the library calls made on a loaded cloud
cmVars == <<cmName, cmT, cmColor>>
colorizeVars == <<settings, colorizePc, colorizeDepth, colorized>>
profileVars == <<corridor, profilePc, profile>>
uiVars == <<crossSection, profileData, lastEvent>>
libVars == <<cmVars, pointCloud, colorizeVars, profileVars, uiVars>>
vars == <<loading, progress, layers, alert, mesh,
          pc, source, arrayBuffer, header, decoderCalls, error, progressLog,
          totalPoints, step, pointCount, lngLat, intensities,
          classifications, hasIntensities, hasClassifications,
          bounds, i, visited, result, sinceYield,
          cmName, cmT, cmColor,
          pointCloud, settings, colorizePc, colorizeDepth, colorized,
          corridor, profilePc, profile,
          crossSection, profileData, lastEvent>>

EmptyBounds ==
    [minX |-> Infinity, maxX |-> NegInfinity,
     minY |-> Infinity, maxY |-> NegInfinity,
     minZ |-> Infinity, maxZ |-> NegInfinity]

\* "no PointCloudData": the call has returned nothing
NoData ==
    [present |-> FALSE, positions |-> <<>>, coordinateOrigin |-> <<0, 0, 0>>,
     hasColors |-> FALSE, colors |-> <<>>,
     hasIntensities |-> FALSE, intensities |-> <<>>,
     hasClassifications |-> FALSE, classifications |-> <<>>,
     pointCount |-> 0, bounds |-> EmptyBounds]

\* no sample has been taken
NoColor == <<>>

CmIdle ==
    /\ cmName = "none"
    /\ cmT = Frac(0, 1)
    /\ cmColor = NoColor

\* colorizePoints has not been called
NoSettings ==
    [colorScheme |-> "none", colormap |-> "none", classificationVisibility |-> <<>>]

ColorizeIdle ==
    /\ settings = NoSettings
    /\ colorizePc = "idle"
    /\ colorizeDepth = 0
    /\ colorized = <<>>

\* getProfile has not been called
NoCorridor == [start |-> <<0, 0>>, end |-> <<0, 0>>, width |-> 0]

ProfileIdle ==
    /\ corridor = NoCorridor
    /\ profilePc = "idle"
    /\ profile = <<>>

\* useState({ mode: 'idle' }), useState([]); no user event handled yet
UiIdle ==
    /\ crossSection = [mode |-> "idle"]
    /\ profileData = <<>>
    /\ lastEvent = [kind |-> "none", n |-> 0, early |-> FALSE, at |-> <<>>]

LibIdle ==
    /\ CmIdle
    /\ pointCloud = NoData
    /\ ColorizeIdle
    /\ ProfileIdle
    /\ UiIdle

\* the application before any load: no layer, no call in progress
LoaderIdle ==
    /\ loading = FALSE
    /\ progress = Frac(0, 1)
    /\ layers = <<>>
    /\ alert = "none"
    /\ pc = "idle"
    /\ source = "none"
    /\ arrayBuffer = NoBuffer
    /\ header = NoHeader
    /\ decoderCalls = 0
    /\ error = "none"
    /\ progressLog = <<>>
    /\ totalPoints = 0
    /\ step = 0
    /\ pointCount = 0
    /\ lngLat = <<>>
    /\ intensities = <<>>
    /\ classifications = <<>>
    /\ hasIntensities = FALSE
    /\ hasClassifications = FALSE
    /\ bounds = EmptyBounds
    /\ i = 0
    /\ visited = 0
    /\ result = NoData
    /\ sinceYield = 0

Init ==
    /\ mesh \in Meshes
    /\ LoaderIdle
    /\ LibIdle

\* ------------------------------------------------- loadPointCloud, helpers
\* onProgress?.(p) with the callback of loadLayer, (p) => setProgress(p)
Report(p) ==
    /\ progressLog' = Append(progressLog, p)
    /\ progress' = p

\* variant: a rejected call that still adds a layer
FailAddsLayer(err) ==
    /\ pc' = "rejected"
    /\ error' = err
    /\ alert' = err
    /\ loading' = FALSE
    /\ layers' = Append(layers, [source |-> IF source = "url" THEN "remote" ELSE "local",
                                  pointCloud |-> result,
                                  visible |-> TRUE,
                                  opacity |-> 1,
                                  zOffset |-> 0])
    /\ UNCHANGED result

\* variant: no finally block, the loading flag stays set after a rejection
FailKeepsLoading(err) ==
    /\ pc' = "rejected"
    /\ error' = err
    /\ alert' = err
    /\ UNCHANGED <<loading, layers, result>>

\* the promise of loadPointCloud rejects with err: loadLayer's catch shows the
\* alert and its finally clears the loading flag; no layer is added
Fail(err) ==
    /\ pc' = "rejected"
    /\ error' = err
    /\ alert' = err
    /\ loading' = FALSE
    /\ UNCHANGED <<layers, result>>

\* versionMajor, versionMinor and pointFormatId = view.getUint8(104) & 0x3f
ReadHeader(buf) ==
    [versionMajor |-> buf.versionMajor,
     versionMinor |-> buf.versionMinor,
     pointFormatId |-> buf.formatByte % 64]

\* variant: the format limit off by one
UnsupportedOffByOne(h) ==
    /\ h.versionMajor = 1
    /\ h.versionMinor = 4
    /\ h.pointFormatId > 4

\* the header check: LAS 1.4 with a point format above 3
Unsupported(h) ==
    /\ h.versionMajor = 1
    /\ h.versionMinor = 4
    /\ h.pointFormatId > 3

\* view.setUint8(25, 3) on a 1.4 header
Patched(buf) ==
    IF buf.versionMajor = 1 /\ buf.versionMinor = 4
    THEN [buf EXCEPT !.versionMinor = 3]
    ELSE buf

Zeros(n) == [j \in 1..n |-> 0]

\* variant: max is tested only when min was not lowered (else-if)
IncludeElseIf(b, lng, lat, z) ==
    [minX |-> IF lng < b.minX THEN lng ELSE b.minX,
     maxX |-> IF lng < b.minX THEN b.maxX ELSE IF lng > b.maxX THEN lng ELSE b.maxX,
     minY |-> IF lat < b.minY THEN lat ELSE b.minY,
     maxY |-> IF lat < b.minY THEN b.maxY ELSE IF lat > b.maxY THEN lat ELSE b.maxY,
     minZ |-> IF z < b.minZ THEN z ELSE b.minZ,
     maxZ |-> IF z < b.minZ THEN b.maxZ ELSE IF z > b.maxZ THEN z ELSE b.maxZ]

\* the running bounding box after one more point
Include(b, lng, lat, z) ==
    [minX |-> IF lng < b.minX THEN lng ELSE b.minX,
     maxX |-> IF lng > b.maxX THEN lng ELSE b.maxX,
     minY |-> IF lat < b.minY THEN lat ELSE b.minY,
     maxY |-> IF lat > b.maxY THEN lat ELSE b.maxY,
     minZ |-> IF z < b.minZ THEN z ELSE b.minZ,
     maxZ |-> IF z > b.maxZ THEN z ELSE b.maxZ]

\* if (i > 0 && i % CHUNK_SIZE === 0)
ChunkBoundary(idx) == idx > 0 /\ idx % Chunk = 0

\* variant: the ratio inverted, pointCount / i
LoopProgressInverted(idx, count) == Frac(5 * idx + 4 * count, 10 * idx)

\* 0.5 + 0.4 * (i / pointCount)
LoopProgress(idx, count) == Frac(5 * count + 4 * idx, 10 * count)

\* variant: the min corner in place of the midpoint
MidpointOfMin(lo, hi) == lo

\* (min + max) / 2 in double arithmetic
Midpoint(lo, hi) ==
    IF lo = Infinity /\ hi = NegInfinity THEN NaN ELSE (lo + hi) \div 2

\* double subtraction; NaN is absorbing
Minus(a, b) == IF a = NaN \/ b = NaN THEN NaN ELSE a - b

\* the store into the Float32Array; NaN stays NaN
StoreF32(v) == IF v = NaN THEN NaN ELSE Fround(v)

\* i++ and the loop test of the reprojection loop; on exit onProgress(0.9)
\* and the yield that follows
NextIteration ==
    /\ i' = i + 1
    /\ IF i + 1 < pointCount
       THEN /\ pc' = "loop"
            /\ UNCHANGED <<progress, progressLog>>
       ELSE /\ pc' = "yield3"
            /\ Report(Frac(9, 10))

\* ------------------------------------------------------------- operations
\* variant: the guard of loadLayer never holds
BusyNever(flag) == FALSE

\* if (loading) return;
Busy(flag) == flag

\* loadLayer past its guard, up to the first await of loadPointCloud
StartLoad(kind) ==
    /\ loading' = TRUE
    /\ source' = kind
    /\ progressLog' = <<Frac(1, 20)>>
    /\ progress' = Frac(1, 20)
    /\ pc' = IF kind = "url" THEN "fetch" ELSE "read"
    /\ arrayBuffer' = NoBuffer
    /\ header' = NoHeader
    /\ decoderCalls' = 0
    /\ error' = "none"
    /\ totalPoints' = 0
    /\ step' = 0
    /\ pointCount' = 0
    /\ lngLat' = <<>>
    /\ intensities' = <<>>
    /\ classifications' = <<>>
    /\ hasIntensities' = FALSE
    /\ hasClassifications' = FALSE
    /\ bounds' = EmptyBounds
    /\ i' = 0
    /\ visited' = 0
    /\ result' = NoData
    /\ sinceYield' = 0
    /\ alert' = "none"
    /\ UNCHANGED <<layers, mesh>>

\* a load is requested while no call is in flight
LoadLayer(kind) ==
    /\ ~Busy(loading)
    /\ pc \in {"idle", "resolved", "rejected"}
    /\ Len(layers) < MaxLayers
    /\ StartLoad(kind)
    /\ UNCHANGED libVars

\* await fetch(source) settles
FetchSettle ==
    /\ pc = "fetch"
    /\ UNCHANGED libVars
    /\ \E outcome \in {"reject", "notok", "ok"} :
         CASE outcome = "reject" -> Fail("NetworkError")
           [] outcome = "notok" -> Fail("HTTPError")
           [] OTHER -> /\ pc' = "read"
                       /\ UNCHANGED <<error, alert, loading, layers, result>>
    /\ UNCHANGED <<progress, progressLog, mesh, source, arrayBuffer, header,
                   decoderCalls, totalPoints, step, pointCount, lngLat,
                   intensities, classifications, hasIntensities,
                   hasClassifications, bounds, i, visited, sinceYield>>

\* await ....arrayBuffer() settles; on success the header check runs and
\* load() is called
ReadSettle ==
    /\ pc = "read"
    /\ UNCHANGED libVars
    /\ \/ /\ Fail("ReadError")
          /\ UNCHANGED <<arrayBuffer, header, decoderCalls>>
       \/ \E buf \in Buffers :
            IF buf.byteLength < 105
            THEN /\ arrayBuffer' = buf
                 /\ Fail("HeaderRangeError")
                 /\ UNCHANGED <<header, decoderCalls>>
            ELSE IF Unsupported(ReadHeader(buf))
            THEN /\ arrayBuffer' = buf
                 /\ header' = ReadHeader(buf)
                 /\ Fail("FormatError")
                 /\ UNCHANGED decoderCalls
            ELSE /\ arrayBuffer' = Patched(buf)
                 /\ header' = ReadHeader(buf)
                 /\ decoderCalls' = decoderCalls + 1
                 /\ pc' = "decode"
                 /\ UNCHANGED <<error, alert, loading, layers, result>>
    /\ UNCHANGED <<progress, progressLog, mesh, source,
                   totalPoints, step, pointCount, lngLat,
                   intensities, classifications, hasIntensities,
                   hasClassifications, bounds, i, visited, sinceYield>>

\* await load(arrayBuffer, LASLoader, ...) settles; on success
\* onProgress(0.4) and the first yield
DecodeSettle ==
    /\ pc = "decode"
    /\ UNCHANGED libVars
    /\ \/ /\ Fail("DecodeError")
          /\ UNCHANGED <<progress, progressLog, arrayBuffer, header>>
       \/ /\ Report(Frac(2, 5))
          /\ pc' = "yield1"
          \* the try block ends: its locals leave scope
          /\ arrayBuffer' = NoBuffer
          /\ header' = NoHeader
          /\ UNCHANGED <<error, alert, loading, layers, result>>
    /\ UNCHANGED <<mesh, source, decoderCalls,
                   totalPoints, step, pointCount, lngLat,
                   intensities, classifications, hasIntensities,
                   hasClassifications, bounds, i, visited, sinceYield>>

\* from the first yield to the second: the stride and onProgress(0.5)
Subsample ==
    /\ pc = "yield1"
    /\ UNCHANGED libVars
    /\ IF ~mesh.hasPosition
       THEN /\ Fail("PositionTypeError")
            /\ UNCHANGED <<progress, progressLog, totalPoints, step, pointCount>>
       ELSE /\ totalPoints' = mesh.vertexCount
            /\ step' = StepOf(mesh.vertexCount, Cap)
            /\ pointCount' = CountOf(mesh.vertexCount, StepOf(mesh.vertexCount, Cap))
            /\ Report(Frac(1, 2))
            /\ pc' = "yield2"
            /\ UNCHANGED <<error, alert, loading, layers, result>>
    /\ UNCHANGED <<mesh, source, arrayBuffer, header, decoderCalls, lngLat,
                   intensities, classifications, hasIntensities,
                   hasClassifications, bounds, i, visited, sinceYield>>

\* from the second yield into the reprojection loop: the buffers
Allocate ==
    /\ pc = "yield2"
    /\ UNCHANGED libVars
    /\ IF pointCount < 0
       THEN /\ Fail("LengthRangeError")
            /\ UNCHANGED <<progress, progressLog, lngLat, intensities,
                           classifications, hasIntensities,
                           hasClassifications, bounds, i>>
       ELSE /\ lngLat' = Zeros(pointCount * 3)
            /\ hasIntensities' = mesh.hasIntensity
            /\ intensities' = IF mesh.hasIntensity
                              THEN [j \in 1..pointCount |-> Frac(0, 1)]
                              ELSE <<>>
            /\ hasClassifications' = mesh.hasClassification
            /\ classifications' = IF mesh.hasClassification
                                  THEN Zeros(pointCount)
                                  ELSE <<>>
            /\ bounds' = EmptyBounds
            /\ i' = 0
            /\ IF 0 < pointCount
               THEN /\ pc' = "loop"
                    /\ UNCHANGED <<progress, progressLog>>
               ELSE /\ pc' = "yield3"
                    /\ Report(Frac(9, 10))
            /\ UNCHANGED <<error, alert, loading, layers, result>>
    /\ sinceYield' = 0
    /\ UNCHANGED <<mesh, source, arrayBuffer, header, decoderCalls,
                   totalPoints, step, pointCount, visited>>

\* one iteration of the reprojection loop, up to its yield if it has one
ReprojectPoint ==
    /\ pc = "loop"
    /\ UNCHANGED libVars
    /\ LET srcIdx == i * step
           utmX == mesh.POSITION[srcIdx * 3 + 1]
           utmY == mesh.POSITION[srcIdx * 3 + 2]
           z == mesh.POSITION[srcIdx * 3 + 3]
           ll == Forward(utmX, utmY)
       IN  /\ lngLat' = [lngLat EXCEPT ![i * 3 + 1] = ll[1],
                                       ![i * 3 + 2] = ll[2],
                                       ![i * 3 + 3] = z]
           /\ intensities' =
                IF hasIntensities
                THEN [intensities EXCEPT ![i + 1] = Frac(RawIntensityAt(srcIdx), 65535)]
                ELSE intensities
           /\ classifications' =
                IF hasClassifications
                THEN [classifications EXCEPT ![i + 1] = ToUint8(RawClassificationAt(srcIdx))]
                ELSE classifications
           /\ bounds' = Include(bounds, ll[1], ll[2], z)
    /\ visited' = visited + 1
    /\ sinceYield' = sinceYield + 1
    /\ IF ChunkBoundary(i)
       THEN /\ Report(LoopProgress(i, pointCount))
            /\ pc' = "yieldLoop"
            /\ UNCHANGED i
       ELSE NextIteration
    /\ UNCHANGED <<loading, layers, alert, mesh, source, arrayBuffer, header,
                   decoderCalls, error, totalPoints, step, pointCount,
                   hasIntensities, hasClassifications, result>>

\* the loop resumes after its yield
ResumeLoop ==
    /\ pc = "yieldLoop"
    /\ UNCHANGED libVars
    /\ NextIteration
    /\ sinceYield' = 0
    /\ UNCHANGED <<loading, layers, alert, mesh, source, arrayBuffer, header,
                   decoderCalls, error, totalPoints, step, pointCount, lngLat,
                   intensities, classifications, hasIntensities,
                   hasClassifications, bounds, visited, result>>

\* rawColors[idx] of a COLOR_0 buffer with `size` channels per point
RawColors(idx, size) == RawColorAt(idx \div size, idx % size)

\* variant: absolute coordinates stored, no origin subtracted
EncodeAbsolute(ll, count, originLng, originLat) ==
    [j \in 1..(count * 3) |-> StoreF32(ll[j])]

\* Step 6: the offsets from the origin, stored as 32-bit floats
EncodePositions(ll, count, originLng, originLat) ==
    [j \in 1..(count * 3) |->
        CASE (j - 1) % 3 = 0 -> StoreF32(Minus(ll[j], originLng))
          [] (j - 1) % 3 = 1 -> StoreF32(Minus(ll[j], originLat))
          [] OTHER -> StoreF32(ll[j])]

\* variant: the source's channel count kept, no alpha added
EncodeColorsPacked(count, stride, channelSize) ==
    [j \in 1..(count * channelSize) |->
        ToUint8(RawColors(((j - 1) \div channelSize) * stride * channelSize
                            + ((j - 1) % channelSize), channelSize))]

\* variant: the colour of output point idx read at source index idx, the
\* stride ignored
EncodeColorsDense(count, stride, channelSize) ==
    [j \in 1..(count * 4) |->
        LET idx == (j - 1) \div 4
            c == (j - 1) % 4
        IN  IF c = 3 THEN 255
            ELSE IF channelSize >= 3
                 THEN ToUint8(RawColors(idx * channelSize + c, channelSize))
                 ELSE 0]

\* Step 7: RGBA bytes, alpha 255
EncodeColors(count, stride, channelSize) ==
    [j \in 1..(count * 4) |->
        LET idx == (j - 1) \div 4
            c == (j - 1) % 4
            srcIdx == idx * stride
        IN  IF c = 3 THEN 255
            ELSE IF channelSize >= 3
                 THEN ToUint8(RawColors(srcIdx * channelSize + c, channelSize))
                 ELSE 0]

\* the Layer loadLayer builds around the returned data
NewLayer(kind, data) ==
    [source |-> IF kind = "url" THEN "remote" ELSE "local",
     pointCloud |-> data,
     visible |-> TRUE,
     opacity |-> 1,
     zOffset |-> 0]

\* variant: the new layer put in front
PrependLayer(prev, layer) == <<layer>> \o prev

\* setLayers((prev) => [...prev, newLayer])
AppendLayer(prev, layer) == Append(prev, layer)

\* from the last yield to the return, and loadLayer's continuation: the new
\* layer is appended and the loading flag cleared
Finish ==
    /\ pc = "yield3"
    /\ UNCHANGED libVars
    /\ LET originLng == Midpoint(bounds.minX, bounds.maxX)
           originLat == Midpoint(bounds.minY, bounds.maxY)
           data ==
             [present |-> TRUE,
              positions |-> EncodePositions(lngLat, pointCount, originLng, originLat),
              coordinateOrigin |-> <<originLng, originLat, 0>>,
              hasColors |-> mesh.colorSize > 0,
              colors |-> IF mesh.colorSize > 0
                         THEN EncodeColors(pointCount, step, mesh.colorSize)
                         ELSE <<>>,
              hasIntensities |-> hasIntensities,
              intensities |-> intensities,
              hasClassifications |-> hasClassifications,
              classifications |-> classifications,
              pointCount |-> pointCount,
              bounds |-> bounds]
       IN  /\ result' = data
           /\ layers' = AppendLayer(layers, NewLayer(source, data))
    /\ Report(Frac(1, 1))
    /\ loading' = FALSE
    /\ pc' = "resolved"
    /\ UNCHANGED <<alert, mesh, source, arrayBuffer, header, decoderCalls, error,
                   totalPoints, step, pointCount, lngLat, intensities,
                   classifications, hasIntensities, hasClassifications,
                   bounds, i, visited, sinceYield>>

Next ==
    \/ \E kind \in {"url", "file"} : LoadLayer(kind)
    \/ FetchSettle
    \/ ReadSettle
    \/ DecodeSettle
    \/ Subsample
    \/ Allocate
    \/ ReprojectPoint
    \/ ResumeLoop
    \/ Finish

Spec == Init /\ [][Next]_vars

TypeOK ==
    /\ loading \in BOOLEAN
    /\ pc \in {"idle", "fetch", "read", "decode", "yield1", "yield2", "loop",
               "yieldLoop", "yield3", "resolved", "rejected"}
    /\ Len(layers) <= MaxLayers

\* ---------------------------------------- loadPointCloud as one function
\* Step 4 and 5 for a whole mesh: the reprojected coordinates of the retained
\* points, x y z interleaved
Reprojected(m, stride, count) ==
    [j \in 1..(count * 3) |->
        LET srcIdx == ((j - 1) \div 3) * stride
            c == (j - 1) % 3
        IN  IF c = 2 THEN m.POSITION[srcIdx * 3 + 3]
            ELSE Forward(m.POSITION[srcIdx * 3 + 1], m.POSITION[srcIdx * 3 + 2])[c + 1]]

\* the bounding box after the first n retained points
RECURSIVE BoundsOf(_, _)
BoundsOf(ll, n) ==
    IF n = 0 THEN EmptyBounds
    ELSE Include(BoundsOf(ll, n - 1), ll[n * 3 - 2], ll[n * 3 - 1], ll[n * 3])

\* the PointCloudData a successful loadPointCloud returns for the decoded
\* mesh m when at most cap points are kept
PointCloudOf(m, cap) ==
    LET stride == StepOf(m.vertexCount, cap)
        count == CountOf(m.vertexCount, stride)
        ll == Reprojected(m, stride, count)
        b == BoundsOf(ll, count)
        originLng == Midpoint(b.minX, b.maxX)
        originLat == Midpoint(b.minY, b.maxY)
    IN  [present |-> TRUE,
         positions |-> EncodePositions(ll, count, originLng, originLat),
         coordinateOrigin |-> <<originLng, originLat, 0>>,
         hasColors |-> m.colorSize > 0,
         colors |-> IF m.colorSize > 0
                    THEN EncodeColors(count, stride, m.colorSize)
                    ELSE <<>>,
         hasIntensities |-> m.hasIntensity,
         intensities |-> IF m.hasIntensity
                         THEN [k \in 1..count |->
                                 Frac(RawIntensityAt((k - 1) * stride), 65535)]
                         ELSE <<>>,
         hasClassifications |-> m.hasClassification,
         classifications |-> IF m.hasClassification
                             THEN [k \in 1..count |->
                                     ToUint8(RawClassificationAt((k - 1) * stride))]
                             ELSE <<>>,
         pointCount |-> count,
         bounds |-> b]

\* every call that resolves returns PointCloudOf of its mesh
ResolvesToPointCloudOf == result.present => result = PointCloudOf(mesh, Cap)

\* ------------------------------------------------------------ colormaps.ts
\* A stop position p of the source (0.0 .. 1.0) is the integer p * Milli, and
\* so is the sampling position t: every position of the catalogue is a whole
\* number of thousandths.
Milli == 1000

\* COLORMAPS.viridis
viridis ==
    <<<<0, 68, 1, 84>>,
      <<100, 72, 35, 116>>,
      <<200, 64, 67, 135>>,
      <<300, 52, 94, 141>>,
      <<400, 41, 120, 142>>,
      <<500, 32, 144, 140>>,
      <<600, 34, 167, 132>>,
      <<700, 68, 190, 112>>,
      <<800, 121, 209, 81>>,
      <<900, 189, 222, 38>>,
      <<1000, 253, 231, 37>>>>

\* COLORMAPS.plasma
plasma ==
    <<<<0, 13, 8, 135>>,
      <<100, 75, 3, 161>>,
      <<200, 125, 3, 168>>,
      <<300, 168, 34, 150>>,
      <<400, 203, 70, 121>>,
      <<500, 229, 107, 93>>,
      <<600, 248, 148, 65>>,
      <<700, 253, 195, 40>>,
      <<800, 240, 228, 66>>,
      <<900, 222, 244, 113>>,
      <<1000, 240, 249, 33>>>>

\* COLORMAPS.inferno
inferno ==
    <<<<0, 0, 0, 4>>,
      <<100, 22, 11, 57>>,
      <<200, 66, 10, 104>>,
      <<300, 106, 23, 110>>,
      <<400, 147, 38, 103>>,
      <<500, 188, 55, 84>>,
      <<600, 221, 81, 58>>,
      <<700, 243, 118, 27>>,
      <<800, 252, 165, 10>>,
      <<900, 246, 215, 70>>,
      <<1000, 252, 255, 164>>>>

\* COLORMAPS.turbo
turbo ==
    <<<<0, 48, 18, 59>>,
      <<100, 67, 85, 189>>,
      <<200, 45, 150, 228>>,
      <<300, 24, 196, 193>>,
      <<400, 68, 227, 135>>,
      <<500, 147, 244, 73>>,
      <<600, 209, 234, 43>>,
      <<700, 249, 195, 35>>,
      <<800, 253, 141, 33>>,
      <<900, 228, 74, 25>>,
      <<1000, 163, 16, 16>>>>

\* COLORMAPS.magma
magma ==
    <<<<0, 0, 0, 4>>,
      <<100, 23, 11, 58>>,
      <<200, 66, 15, 117>>,
      <<300, 114, 31, 129>>,
      <<400, 163, 50, 120>>,
      <<500, 211, 67, 94>>,
      <<600, 248, 107, 78>>,
      <<700, 254, 155, 87>>,
      <<800, 252, 205, 127>>,
      <<900, 252, 253, 191>>,
      <<1000, 252, 253, 255>>>>

\* COLORMAPS.cividis
cividis ==
    <<<<0, 0, 32, 77>>,
      <<200, 0, 53, 107>>,
      <<400, 65, 77, 107>>,
      <<600, 124, 123, 120>>,
      <<800, 190, 186, 118>>,
      <<1000, 255, 234, 70>>>>

\* COLORMAPS.jet
jet ==
    <<<<0, 0, 0, 128>>,
      <<125, 0, 0, 255>>,
      <<375, 0, 255, 255>>,
      <<625, 255, 255, 0>>,
      <<875, 255, 0, 0>>,
      <<1000, 128, 0, 0>>>>

\* COLORMAPS.rainbow
rainbow ==
    <<<<0, 0, 0, 255>>,
      <<200, 0, 255, 255>>,
      <<400, 0, 255, 0>>,
      <<600, 255, 255, 0>>,
      <<800, 255, 0, 0>>,
      <<1000, 255, 0, 255>>>>

\* COLORMAPS.coolwarm
coolwarm ==
    <<<<0, 59, 76, 192>>,
      <<250, 119, 154, 229>>,
      <<500, 221, 221, 221>>,
      <<750, 241, 142, 105>>,
      <<1000, 180, 4, 38>>>>

\* COLORMAPS.terrain
terrain ==
    <<<<0, 51, 128, 51>>,
      <<200, 102, 179, 102>>,
      <<300, 179, 204, 102>>,
      <<400, 204, 179, 102>>,
      <<600, 179, 128, 77>>,
      <<800, 204, 179, 153>>,
      <<1000, 255, 255, 255>>>>

\* variant: the gray ramp with its two stops in the reverse order
grayReversed ==
    <<<<1000, 255, 255, 255>>,
      <<0, 0, 0, 0>>>>

\* COLORMAPS.gray
gray ==
    <<<<0, 0, 0, 0>>,
      <<1000, 255, 255, 255>>>>

\* the catalogue, keyed by ColormapName
COLORMAPS ==
    [viridis |-> viridis, plasma |-> plasma, inferno |-> inferno,
     turbo |-> turbo, magma |-> magma, cividis |-> cividis, jet |-> jet,
     rainbow |-> rainbow, coolwarm |-> coolwarm, terrain |-> terrain,
     gray |-> gray]

ColormapNames == DOMAIN COLORMAPS

\* A sampling position t is a fraction <<n, d>> with d > 0.
\* t = Math.max(0, Math.min(1, t))
Clamp01(t) ==
    IF t[1] < 0 THEN Frac(0, 1)
    ELSE IF t[1] > t[2] THEN Frac(1, 1)
    ELSE t

\* variant: the fractional part dropped
RoundDown(n, d) == n \div d

\* Math.round(n / d) for d > 0: the nearest integer, a half rounds up
Round(n, d) == (2 * n + d) \div (2 * d)

\* Math.round(c0 + (c1 - c0) * fraction), fraction = (t - pos0) / (pos1 - pos0)
\* with t = n / d and the positions in thousandths
Lerp(c0, c1, t, pos0, pos1) ==
    Round(c0 * ((pos1 - pos0) * t[2]) + (c1 - c0) * (t[1] * Milli - pos0 * t[2]),
          (pos1 - pos0) * t[2])

\* variant: a bracket is open at its lower end
RECURSIVE ScanStopsOpen(_, _, _)
ScanStopsOpen(stops, t, k) ==
    IF k > Len(stops) - 1
    THEN <<stops[Len(stops)][2], stops[Len(stops)][3], stops[Len(stops)][4]>>
    ELSE IF /\ t[1] * Milli > stops[k][1] * t[2]
            /\ t[1] * Milli <= stops[k + 1][1] * t[2]
         THEN <<Lerp(stops[k][2], stops[k + 1][2], t, stops[k][1], stops[k + 1][1]),
                Lerp(stops[k][3], stops[k + 1][3], t, stops[k][1], stops[k + 1][1]),
                Lerp(stops[k][4], stops[k + 1][4], t, stops[k][1], stops[k + 1][1])>>
         ELSE ScanStopsOpen(stops, t, k + 1)

\* the loop over consecutive stops from index k (1-based); the first bracket
\* with pos0 <= t <= pos1 answers, and past the last bracket the last stop does
RECURSIVE ScanStops(_, _, _)
ScanStops(stops, t, k) ==
    IF k > Len(stops) - 1
    THEN <<stops[Len(stops)][2], stops[Len(stops)][3], stops[Len(stops)][4]>>
    ELSE IF /\ t[1] * Milli >= stops[k][1] * t[2]
            /\ t[1] * Milli <= stops[k + 1][1] * t[2]
         THEN <<Lerp(stops[k][2], stops[k + 1][2], t, stops[k][1], stops[k + 1][1]),
                Lerp(stops[k][3], stops[k + 1][3], t, stops[k][1], stops[k + 1][1]),
                Lerp(stops[k][4], stops[k + 1][4], t, stops[k][1], stops[k + 1][1])>>
         ELSE ScanStops(stops, t, k + 1)

sampleColormap(name, t) == ScanStops(COLORMAPS[name], Clamp01(t), 1)

\* the sampling positions tried: every thousandth from -0.5 to 1.5
SamplePositions == { Frac(n, Milli) : n \in (0 - Milli \div 2)..(Milli + Milli \div 2) }

\* a caller samples a colormap
SampleColormap ==
    /\ cmColor = NoColor
    /\ \E name \in ColormapNames, t \in SamplePositions :
          /\ cmName' = name
          /\ cmT' = t
          /\ cmColor' = sampleColormap(name, t)
    /\ UNCHANGED <<appVars, callVars, mesh, pointCloud, colorizeVars, profileVars, uiVars>>

InitColormap ==
    /\ mesh = MeshOf(0, <<>>, TRUE, 0, FALSE, FALSE)
    /\ LoaderIdle
    /\ LibIdle

NextColormap == SampleColormap

SpecColormap == InitColormap /\ [][NextColormap]_vars

\* ------------------------------------------------------- loaded point clouds
\* The clouds handed to colorizePoints and getProfile are results of
\* loadPointCloud. A coordinate c stands for c / UnitsPerDegree degrees, so
\* one unit of latitude is one metre.
UnitsPerDegree == 111320

\* decoded surveys, as UTM x, y, z: one point; two points east of the
\* origin; four points in an order that is not the order along any axis;
\* two points at one elevation; one point whose elevation is not a 32-bit
\* float and lies nearer the float above it
Surveys ==
    { <<>>,
      << <<0, 0, 5>> >>,
      << <<1, 0, 7>>, <<0, 1, 7>> >>,
      << <<0, 0, TwoTo24 + 3>> >>,
      << <<2, 2, 4>>, <<1, 1, 2>> >>,
      << <<0, 0, 5>>, <<2, 3, 10>>, <<-2, -3, 0>>, <<1, 1, 5>> >> }

SurveyMeshes ==
    { MeshOf(Len(pts), pts, TRUE, cs, hasI, hasC) :
        pts \in Surveys, cs \in {0, 3}, hasI \in BOOLEAN, hasC \in BOOLEAN }

\* what loadPointCloud returns for them (none reaches MAX_POINTS)
LoadedClouds == { PointCloudOf(m, MAX_POINTS) : m \in SurveyMeshes }

\* --------------------------------------------------------------- colorize.ts
\* CLASSIFICATION_COLORS, by ASPRS code
CLASSIFICATION_COLORS ==
    (0 :> <<180, 180, 180>>) @@ (1 :> <<180, 180, 180>>) @@
    (2 :> <<139, 90, 43>>) @@ (3 :> <<0, 200, 0>>) @@ (4 :> <<0, 150, 0>>) @@
    (5 :> <<0, 100, 0>>) @@ (6 :> <<255, 165, 0>>) @@ (7 :> <<255, 0, 0>>) @@
    (9 :> <<0, 100, 255>>) @@ (17 :> <<200, 200, 0>>)

\* CLASSIFICATION_COLORS[code] ?? [180, 180, 180]
ClassColor(code) ==
    IF code \in DOMAIN CLASSIFICATION_COLORS
    THEN CLASSIFICATION_COLORS[code]
    ELSE <<180, 180, 180>>

\* variant: only a flag that is present and true shows a class
IsVisibleOnlyTrue(visibility, code) ==
    code \in DOMAIN visibility /\ visibility[code] = TRUE

\* classificationVisibility[code] !== false: an absent flag shows the class
IsVisible(visibility, code) ==
    ~(code \in DOMAIN visibility /\ visibility[code] = FALSE)

\* variant: the fill leaves alpha at 0
fillSolidColorTransparent(count, r, g, b) ==
    [j \in 1..(count * 4) |->
        CASE (j - 1) % 4 = 0 -> r
          [] (j - 1) % 4 = 1 -> g
          [] (j - 1) % 4 = 2 -> b
          [] OTHER -> 0]

\* fillSolidColor on a fresh buffer of count * 4 bytes
fillSolidColor(count, r, g, b) ==
    [j \in 1..(count * 4) |->
        CASE (j - 1) % 4 = 0 -> r
          [] (j - 1) % 4 = 1 -> g
          [] (j - 1) % 4 = 2 -> b
          [] OTHER -> 255]

\* x || 1
OrOne(x) == IF x = 0 THEN 1 ELSE x

RECURSIVE Gcd(_, _)
Gcd(a, b) == IF b = 0 THEN a ELSE Gcd(b, a % b)

\* the quotient n / d in lowest terms, d > 0
Quotient(n, d) == Frac(n \div Gcd(Abs(n), d), d \div Gcd(Abs(n), d))

\* variant: the elevation measured down from maxZ
ElevationColorsFromMax(d, colormap) ==
    LET range == OrOne(d.bounds.maxZ - d.bounds.minZ)
    IN  [j \in 1..(d.pointCount * 4) |->
            LET z == d.positions[((j - 1) \div 4) * 3 + 3]
                t == Quotient(d.bounds.maxZ - z, range)
            IN  IF (j - 1) % 4 = 3 THEN 255
                ELSE sampleColormap(colormap, t)[((j - 1) % 4) + 1]]

\* case 'elevation'
ElevationColors(d, colormap) ==
    LET range == OrOne(d.bounds.maxZ - d.bounds.minZ)
    IN  [j \in 1..(d.pointCount * 4) |->
            LET z == d.positions[((j - 1) \div 4) * 3 + 3]
                t == Quotient(z - d.bounds.minZ, range)
            IN  IF (j - 1) % 4 = 3 THEN 255
                ELSE sampleColormap(colormap, t)[((j - 1) % 4) + 1]]

\* the observed minimum and maximum of the intensities (numerators over 65535)
RECURSIVE MinI(_, _)
MinI(v, n) ==
    IF n = 0 THEN Infinity
    ELSE IF v[n][1] < MinI(v, n - 1) THEN v[n][1] ELSE MinI(v, n - 1)

RECURSIVE MaxI(_, _)
MaxI(v, n) ==
    IF n = 0 THEN NegInfinity
    ELSE IF v[n][1] > MaxI(v, n - 1) THEN v[n][1] ELSE MaxI(v, n - 1)

\* case 'intensity' with an intensity buffer; when all intensities are equal
\* the range is 1 and every t is 0
IntensityColors(d, colormap) ==
    LET minI == MinI(d.intensities, d.pointCount)
        maxI == MaxI(d.intensities, d.pointCount)
    IN  [j \in 1..(d.pointCount * 4) |->
            LET v == d.intensities[((j - 1) \div 4) + 1][1]
                t == IF maxI = minI THEN Frac(0, 1)
                     ELSE Quotient(v - minI, maxI - minI)
            IN  IF (j - 1) % 4 = 3 THEN 255
                ELSE sampleColormap(colormap, t)[((j - 1) % 4) + 1]]

\* case 'classification' with a classification buffer: a hidden point keeps
\* the zeros of the fresh buffer
ClassificationColors(d, visibility) ==
    [j \in 1..(d.pointCount * 4) |->
        LET code == d.classifications[((j - 1) \div 4) + 1]
        IN  IF IsVisible(visibility, code)
            THEN IF (j - 1) % 4 = 3 THEN 255
                 ELSE ClassColor(code)[((j - 1) % 4) + 1]
            ELSE 0]

\* case 'rgb' with a color buffer: colors.set(data.colors), then alpha 255
RgbColors(d) ==
    [j \in 1..(d.pointCount * 4) |->
        IF (j - 1) % 4 = 3 THEN 255 ELSE d.colors[j]]

\* the rgb branch without a color buffer: return colorizePoints(data, settings)
Recurses(d, s) == s.colorScheme = "rgb" /\ ~d.hasColors

\* the buffer a frame returns when it does not recurse
ColorsOf(d, s) ==
    CASE s.colorScheme = "elevation" -> ElevationColors(d, s.colormap)
      [] s.colorScheme = "intensity" ->
            IF ~d.hasIntensities
            THEN fillSolidColor(d.pointCount, 180, 180, 180)
            ELSE IntensityColors(d, s.colormap)
      [] s.colorScheme = "classification" ->
            IF ~d.hasClassifications
            THEN fillSolidColor(d.pointCount, 180, 180, 180)
            ELSE ClassificationColors(d, s.classificationVisibility)
      [] OTHER -> RgbColors(d)

\* the depth of recursion at which the engine raises a RangeError
StackLimit == 3

\* the settings tried: every scheme, two colormaps, every assignment of a
\* flag (or none) to the codes 2, 12 and 17
Visibilities == UNION { [D -> BOOLEAN] : D \in SUBSET {2, 12, 17} }

SettingsSet ==
    { [colorScheme |-> cs, colormap |-> cm, classificationVisibility |-> v] :
        cs \in {"elevation", "intensity", "classification", "rgb"},
        cm \in {"viridis", "terrain"},
        v \in Visibilities }

\* the map view calls colorizePoints(pointCloud, layerSettings)
ColorizeCall(s) ==
    /\ colorizePc = "idle"
    /\ settings' = s
    /\ colorizePc' = "running"
    /\ colorizeDepth' = 1
    /\ UNCHANGED <<appVars, callVars, mesh, cmVars, pointCloud, colorized, profileVars,
                   uiVars>>

\* the innermost frame reaches `return colorizePoints(data, settings)`: one
\* more frame, with the same arguments
ColorizeRecurse ==
    /\ colorizePc = "running"
    /\ Recurses(pointCloud, settings)
    /\ colorizeDepth < StackLimit
    /\ colorizeDepth' = colorizeDepth + 1
    /\ UNCHANGED <<appVars, callVars, mesh, cmVars, pointCloud, settings, colorizePc,
                   colorized, profileVars, uiVars>>

\* the call stack is exhausted: the call raises a RangeError
ColorizeOverflow ==
    /\ colorizePc = "running"
    /\ Recurses(pointCloud, settings)
    /\ colorizeDepth = StackLimit
    /\ colorizePc' = "thrown"
    /\ colorizeDepth' = 0
    /\ UNCHANGED <<appVars, callVars, mesh, cmVars, pointCloud, settings, colorized,
                   profileVars, uiVars>>

\* the innermost frame fills its buffer and every frame returns it
ColorizeReturn ==
    /\ colorizePc = "running"
    /\ ~Recurses(pointCloud, settings)
    /\ colorized' = ColorsOf(pointCloud, settings)
    /\ colorizePc' = "returned"
    /\ colorizeDepth' = 0
    /\ UNCHANGED <<appVars, callVars, mesh, cmVars, pointCloud, settings, profileVars,
                   uiVars>>

InitColorize ==
    /\ mesh = MeshOf(0, <<>>, TRUE, 0, FALSE, FALSE)
    /\ LoaderIdle
    /\ CmIdle
    /\ pointCloud \in LoadedClouds
    /\ ColorizeIdle
    /\ ProfileIdle
    /\ UiIdle

NextColorize ==
    \/ \E s \in SettingsSet : ColorizeCall(s)
    \/ ColorizeRecurse
    \/ ColorizeOverflow
    \/ ColorizeReturn

SpecColorize == InitColorize /\ [][NextColorize]_vars

\* ---------------------------------------------------------- cross-section.ts
\* Lengths are whole metres: with coordinates in 1 / UnitsPerDegree degrees
\* and the origin on the equator every product below is an integer. A
\* projection onto the axis is the fraction <<dot product, len>>.
metersPerDegLat == 111320

\* Math.cos(oy * Math.PI / 180), for the origins of the loaded clouds
CosLat(oy) ==
    CASE oy = 0 -> 1
      [] oy = NaN -> NaN

\* a product of doubles; NaN is absorbing
Times(a, b) == IF a = NaN \/ b = NaN THEN NaN ELSE a * b

\* degrees to metres: c / UnitsPerDegree degrees at perDeg metres per degree
Meters(c, perDeg) ==
    IF c = NaN \/ perDeg = NaN THEN NaN ELSE (c * perDeg) \div UnitsPerDegree

\* the corridor axis in the local metre frame: x1, y1, dx, dy
Axis(d, start, end) ==
    LET ox == d.coordinateOrigin[1]
        oy == d.coordinateOrigin[2]
        metersPerDegLng == Times(metersPerDegLat, CosLat(oy))
        x1 == Meters(Minus(start[1], ox), metersPerDegLng)
        y1 == Meters(Minus(start[2], oy), metersPerDegLat)
        x2 == Meters(Minus(end[1], ox), metersPerDegLng)
        y2 == Meters(Minus(end[2], oy), metersPerDegLat)
    IN  [x1 |-> x1, y1 |-> y1, dx |-> Minus(x2, x1), dy |-> Minus(y2, y1),
         metersPerDegLng |-> metersPerDegLng]

\* Math.sqrt of a perfect square
Sqrt(sq) == CHOOSE r \in 0..sq : r * r = sq

\* len = Math.sqrt(dx * dx + dy * dy); NaN when the origin is NaN
LenOf(a) ==
    IF a.dx = NaN \/ a.dy = NaN THEN NaN ELSE Sqrt(a.dx * a.dx + a.dy * a.dy)

\* variant: the zero-length test left out
DegenerateNever(len) == FALSE

\* if (len === 0) return []
Degenerate(len) == len = 0

\* vx, vy of point k (0-based): the vector from the start to the point
FromStart(d, a, k) ==
    <<Minus(Meters(d.positions[k * 3 + 1], a.metersPerDegLng), a.x1),
      Minus(Meters(d.positions[k * 3 + 2], metersPerDegLat), a.y1)>>

\* dist * len = vx * dx + vy * dy, since ux = dx / len and uy = dy / len
AlongTimesLen(a, v) == v[1] * a.dx + v[2] * a.dy

\* offset * len = vx * nx * len + vy * ny * len with nx = -uy and ny = ux
OffsetTimesLen(a, v) == v[2] * a.dx - v[1] * a.dy

\* variant: the whole width allowed on either side
InCorridorFullWidth(a, len, v, width) ==
    /\ len # NaN
    /\ AlongTimesLen(a, v) >= 0
    /\ AlongTimesLen(a, v) <= len * len
    /\ Abs(OffsetTimesLen(a, v)) <= width * len

\* dist >= 0 && dist <= len && Math.abs(offset) <= halfWidth, halfWidth =
\* width / 2; every comparison with NaN is false
InCorridor(a, len, v, width) ==
    /\ len # NaN
    /\ AlongTimesLen(a, v) >= 0
    /\ AlongTimesLen(a, v) <= len * len
    /\ 2 * Abs(OffsetTimesLen(a, v)) <= width * len

\* variant: the attributes of every ProfilePoint read at index 0
ProfilePointOfFirst(d, a, len, k) ==
    [distance |-> Frac(AlongTimesLen(a, FromStart(d, a, k)), len),
     elevation |-> d.positions[k * 3 + 3],
     color |-> IF d.hasColors
               THEN <<d.colors[1], d.colors[2], d.colors[3]>>
               ELSE <<255, 255, 255>>,
     intensity |-> IF d.hasIntensities THEN d.intensities[1] ELSE Frac(0, 1),
     classification |-> IF d.hasClassifications THEN d.classifications[1] ELSE 0]

\* the ProfilePoint pushed for point k
ProfilePointOf(d, a, len, k) ==
    [distance |-> Frac(AlongTimesLen(a, FromStart(d, a, k)), len),
     elevation |-> d.positions[k * 3 + 3],
     color |-> IF d.hasColors
               THEN <<d.colors[k * 4 + 1], d.colors[k * 4 + 2], d.colors[k * 4 + 3]>>
               ELSE <<255, 255, 255>>,
     intensity |-> IF d.hasIntensities THEN d.intensities[k + 1] ELSE Frac(0, 1),
     classification |-> IF d.hasClassifications THEN d.classifications[k + 1] ELSE 0]

\* the loop: the profile after the points 0 .. n - 1
RECURSIVE Collect(_, _, _, _, _)
Collect(d, a, len, width, n) ==
    IF n = 0 THEN <<>>
    ELSE IF InCorridor(a, len, FromStart(d, a, n - 1), width)
         THEN Append(Collect(d, a, len, width, n - 1), ProfilePointOf(d, a, len, n - 1))
         ELSE Collect(d, a, len, width, n - 1)

\* a.distance - b.distance < 0, distances being fractions over one len > 0
Before(p, q) == p.distance[1] * q.distance[2] < q.distance[1] * p.distance[2]

\* p placed into a sorted sequence, behind the entries that are not after it
RECURSIVE InsertSorted(_, _)
InsertSorted(sorted, p) ==
    IF sorted = <<>> THEN <<p>>
    ELSE IF Before(p, sorted[Len(sorted)])
         THEN Append(InsertSorted(SubSeq(sorted, 1, Len(sorted) - 1), p),
                     sorted[Len(sorted)])
         ELSE Append(sorted, p)

\* variant: the profile left in the order of the buffer
Unsorted(seq) == seq

\* profile.sort((a, b) => a.distance - b.distance): a stable ascending sort
RECURSIVE SortByDistance(_)
SortByDistance(seq) ==
    IF seq = <<>> THEN <<>>
    ELSE InsertSorted(SortByDistance(SubSeq(seq, 1, Len(seq) - 1)), seq[Len(seq)])

getProfile(d, start, end, width) ==
    LET a == Axis(d, start, end)
        len == LenOf(a)
    IN  IF Degenerate(len) THEN <<>>
        ELSE SortByDistance(Collect(d, a, len, width, d.pointCount))

\* the map clicks tried, as lng, lat
Clicks == { <<lng, lat>> : lng \in {-10, -4, 0, 4, 10}, lat \in {-3, 0, 3} }

\* the corridor widths tried, in metres: none, the default, the one App uses
Widths == {0, 2, 5}

IsSquare(sq) == \E r \in 0..sq : r * r = sq

\* the pairs of clicks whose distance is a whole number of metres
Corridors ==
    { c \in [start : Clicks, end : Clicks, width : Widths] :
        IsSquare((c.end[1] - c.start[1]) * (c.end[1] - c.start[1])
                 + (c.end[2] - c.start[2]) * (c.end[2] - c.start[2])) }

\* a caller extracts the profile of the cloud along the corridor c
GetProfileAlong(c) ==
    /\ profilePc = "idle"
    /\ corridor' = c
    /\ profile' = getProfile(pointCloud, c.start, c.end, c.width)
    /\ profilePc' = "returned"
    /\ UNCHANGED <<appVars, callVars, mesh, cmVars, pointCloud, colorizeVars, uiVars>>

\* a caller extracts the profile of the cloud along a corridor
GetProfile == \E c \in Corridors : GetProfileAlong(c)

InitProfile ==
    /\ mesh = MeshOf(0, <<>>, TRUE, 0, FALSE, FALSE)
    /\ LoaderIdle
    /\ CmIdle
    /\ pointCloud \in LoadedClouds
    /\ ColorizeIdle
    /\ ProfileIdle
    /\ UiIdle

NextProfile == GetProfile

SpecProfile == InitProfile /\ [][NextProfile]_vars

\* ------------------------------------------------------ App.tsx, handlers
\* the record of the user event being handled: its kind, whether loadLayer
\* returned at its guard, and the point clicked; n alternates so that two
\* equal events in a row are two different records
Handled(kind, early, at) ==
    [kind |-> kind, n |-> 1 - lastEvent.n, early |-> early, at |-> at]

\* handleLoadDataset, handleFileSelect, handleUrlLoad: each calls loadLayer,
\* which returns at once while loading is set
RequestLoad(kind) ==
    /\ Len(layers) < MaxLayers
    /\ lastEvent' = Handled("load", Busy(loading), <<>>)
    /\ IF Busy(loading)
       THEN UNCHANGED <<appVars, callVars, mesh>>
       ELSE StartLoad(kind)
    /\ UNCHANGED <<cmVars, pointCloud, colorizeVars, profileVars, crossSection,
                   profileData>>

\* updates the layer list sends: from its visibility box and from one of
\* its sliders
LayerUpdates ==
    { [visible |-> FALSE], [visible |-> TRUE], [zOffset |-> 5] }

\* variant: the merged layer loses its point cloud
MergeLosesCloud(layer, updates) ==
    [layer EXCEPT
        !.visible = IF "visible" \in DOMAIN updates THEN updates.visible ELSE @,
        !.opacity = IF "opacity" \in DOMAIN updates THEN updates.opacity ELSE @,
        !.zOffset = IF "zOffset" \in DOMAIN updates THEN updates.zOffset ELSE @,
        !.pointCloud = NoData]

\* { ...layer, ...updates }
Merge(layer, updates) ==
    [layer EXCEPT
        !.visible = IF "visible" \in DOMAIN updates THEN updates.visible ELSE @,
        !.opacity = IF "opacity" \in DOMAIN updates THEN updates.opacity ELSE @,
        !.zOffset = IF "zOffset" \in DOMAIN updates THEN updates.zOffset ELSE @]

\* handleLayerUpdate(id, updates), id being the id of the k-th layer
LayerUpdate(k, updates) ==
    /\ k \in 1..Len(layers)
    /\ layers' = [j \in 1..Len(layers) |->
                    IF j = k THEN Merge(layers[j], updates) ELSE layers[j]]
    /\ UNCHANGED <<loading, progress, alert, mesh, callVars, libVars>>

\* handleLayerRemove(id), id being the id of the k-th layer
LayerRemove(k) ==
    /\ k \in 1..Len(layers)
    /\ layers' = [j \in 1..(Len(layers) - 1) |->
                    IF j < k THEN layers[j] ELSE layers[j + 1]]
    /\ UNCHANGED <<loading, progress, alert, mesh, callVars, libVars>>

\* handleStartProfile
StartProfile ==
    /\ crossSection' = [mode |-> "check_start"]
    /\ profileData' = <<>>
    /\ lastEvent' = Handled("start", FALSE, <<>>)
    /\ UNCHANGED <<appVars, callVars, mesh, cmVars, pointCloud, colorizeVars,
                   profileVars>>

\* variant: the profile points are kept when the tool is stopped
StopProfileKeepsData ==
    /\ crossSection' = [mode |-> "idle"]
    /\ lastEvent' = Handled("stop", FALSE, <<>>)
    /\ UNCHANGED <<appVars, callVars, mesh, cmVars, pointCloud, colorizeVars,
                   profileVars, profileData>>

\* handleStopProfile
StopProfile ==
    /\ crossSection' = [mode |-> "idle"]
    /\ profileData' = <<>>
    /\ lastEvent' = Handled("stop", FALSE, <<>>)
    /\ UNCHANGED <<appVars, callVars, mesh, cmVars, pointCloud, colorizeVars,
                   profileVars>>

\* variant: a click on a complete section starts the next one
AfterClickRestarts(prev, p) ==
    CASE prev.mode = "check_start" -> [mode |-> "check_end", start |-> p]
      [] prev.mode = "check_end" ->
            [mode |-> "complete", start |-> prev.start, end |-> p, width |-> 5]
      [] prev.mode = "complete" -> [mode |-> "check_end", start |-> p]
      [] OTHER -> prev

\* the updater handleMapClick passes to setCrossSection
AfterClick(prev, p) ==
    CASE prev.mode = "check_start" -> [mode |-> "check_end", start |-> p]
      [] prev.mode = "check_end" ->
            [mode |-> "complete", start |-> prev.start, end |-> p, width |-> 5]
      [] OTHER -> prev

\* layers.find(l => l.visible && l.pointCloud): the index, 0 when none
ContentLayer(ls) ==
    LET found == { k \in 1..Len(ls) : ls[k].visible /\ ls[k].pointCloud.present }
    IN  IF found = {} THEN 0
        ELSE CHOOSE k \in found : \A j \in found : k <= j

\* the points of the map the user clicks
MapClicks == { <<-10, 0>>, <<10, 0>> }

\* handleMapClick(lngLat)
MapClick(p) ==
    /\ crossSection' = AfterClick(crossSection, p)
    /\ profileData' =
          IF crossSection.mode = "check_end" /\ ContentLayer(layers) # 0
          THEN getProfile(layers[ContentLayer(layers)].pointCloud,
                          crossSection.start, p, 5)
          ELSE profileData
    /\ lastEvent' = Handled("click", FALSE, p)
    /\ UNCHANGED <<appVars, callVars, mesh, cmVars, pointCloud, colorizeVars,
                   profileVars>>

\* the file the user loads: the survey of four points, with every attribute
AppMesh ==
    MeshOf(4, << <<0, 0, 5>>, <<2, 3, 10>>, <<-2, -3, 0>>, <<1, 1, 5>> >>,
           TRUE, 3, TRUE, TRUE)

InitApp ==
    /\ mesh = AppMesh
    /\ LoaderIdle
    /\ LibIdle

\* a step of the loadPointCloud call in flight
LoaderStep ==
    \/ FetchSettle
    \/ ReadSettle
    \/ DecodeSettle
    \/ Subsample
    \/ Allocate
    \/ ReprojectPoint
    \/ ResumeLoop
    \/ Finish

NextApp ==
    \/ \E kind \in {"url", "file"} : RequestLoad(kind)
    \/ LoaderStep
    \/ \E k \in 1..MaxLayers, updates \in LayerUpdates : LayerUpdate(k, updates)
    \/ \E k \in 1..MaxLayers : LayerRemove(k)
    \/ StartProfile
    \/ StopProfile
    \/ \E p \in MapClicks : MapClick(p)

SpecApp == InitApp /\ [][NextApp]_vars

\* the loads alone: requests, the steps of the call, and removals that make
\* room for the next load
NextLoad ==
    \/ \E kind \in {"url", "file"} : RequestLoad(kind)
    \/ LoaderStep
    \/ \E k \in 1..MaxLayers : LayerRemove(k)

\* every pending promise of the call settles and every timer of its yields
\* fires: a call in flight takes its next step
FairSpecLoad == InitApp /\ [][NextLoad]_vars /\ WF_vars(LoaderStep)

\* ------------------------------------------- the consumers of a layer's cloud
\* DEFAULT_SETTINGS under each colour scheme
ViewSettingsSet ==
    { s \in SettingsSet :
        s.colormap = "viridis" /\ DOMAIN s.classificationVisibility = {} }

\* the files loaded: the survey with every attribute, and one point with none
ConsumerMeshes == { AppMesh, MeshOf(1, << <<0, 0, 5>> >>, TRUE, 0, FALSE, FALSE) }

\* the corridor between the two points clicked, as App draws it
ViewCorridors ==
    { [start |-> a, end |-> b, width |-> 5] : a \in MapClicks, b \in MapClicks }

\* the map view takes the cloud of a visible layer: layer.pointCloud
TakeCloud(k) ==
    /\ ~loading
    /\ k \in 1..Len(layers)
    /\ layers[k].visible
    /\ pointCloud = NoData
    /\ pointCloud' = layers[k].pointCloud
    /\ UNCHANGED <<appVars, callVars, mesh, cmVars, colorizeVars, profileVars, uiVars>>

\* a file is loaded before the view is consulted
LoadBeforeView(kind) == pointCloud = NoData /\ LoadLayer(kind)

\* colorizePoints(pointCloud, layerSettings) on the cloud taken
ColorizeLayer(s) == pointCloud.present /\ ColorizeCall(s)

\* getProfile(contentLayer.pointCloud, start, end, 5.0) on the cloud taken
ProfileLayer(c) == pointCloud.present /\ GetProfileAlong(c)

InitConsumers ==
    /\ mesh \in ConsumerMeshes
    /\ LoaderIdle
    /\ LibIdle

\* loads, then the calls made on the cloud of a layer, among layer updates
\* and removals
NextConsumers ==
    \/ \E kind \in {"url", "file"} : LoadBeforeView(kind)
    \/ LoaderStep
    \/ \E k \in 1..MaxLayers : TakeCloud(k)
    \/ \E s \in ViewSettingsSet : ColorizeLayer(s)
    \/ ColorizeRecurse
    \/ ColorizeOverflow
    \/ ColorizeReturn
    \/ \E c \in ViewCorridors : ProfileLayer(c)
    \/ \E k \in 1..MaxLayers, updates \in LayerUpdates : LayerUpdate(k, updates)
    \/ \E k \in 1..MaxLayers : LayerRemove(k)

SpecConsumers == InitConsumers /\ [][NextConsumers]_vars

\* ================================================================= claims
\* vertex counts around the multiples of the source's cap
SourceTotals ==
    {1, 2, 499999, 500000, 500001, 999999, 1000000, 1000001, 1499999,
     1500000, 1500001, 12345678, 2000000000}

\* the least q with q * d >= n, for n >= 1 and d >= 1
CeilSpec(n, d) == (n + d - 1) \div d

MaxOf(a, b) == IF a >= b THEN a ELSE b

\* the call has computed its stride
Subsampled == pc \in {"yield2", "loop", "yieldLoop", "yield3", "resolved"}

\* C1: for every decoded vertexCount >= 1, step = max(1, ceil(vertexCount /
\* cap)) and the returned pointCount = ceil(vertexCount / step); the same
\* holds of the stride arithmetic with the source's cap of 500000.
C1_Stride ==
    /\ (Subsampled /\ mesh.vertexCount >= 1) =>
          /\ totalPoints = mesh.vertexCount
          /\ step = MaxOf(1, CeilSpec(mesh.vertexCount, Cap))
          /\ pointCount = CeilSpec(mesh.vertexCount, step)
          /\ result.present => result.pointCount = CeilSpec(mesh.vertexCount, step)
    /\ \A t \in SourceTotals :
          /\ StepOf(t, MAX_POINTS) = MaxOf(1, CeilSpec(t, MAX_POINTS))
          /\ CountOf(t, StepOf(t, MAX_POINTS)) = CeilSpec(t, StepOf(t, MAX_POINTS))

\* a decimated cloud has been returned
C1_Witness == result.present /\ mesh.vertexCount > Cap /\ step = 2 /\ result.pointCount = 3

\* C2: whatever the input size, the pointCount of the returned
\* PointCloudData is at most the cap (and at most 500000 with the source's
\* cap).
C2_Capped ==
    /\ Subsampled => pointCount <= Cap
    /\ result.present => result.pointCount <= Cap
    /\ \A t \in SourceTotals : CountOf(t, StepOf(t, MAX_POINTS)) <= MAX_POINTS

\* an input above the cap has been returned with exactly Cap points
C2_Witness == result.present /\ mesh.vertexCount > Cap /\ result.pointCount = Cap

Last(q) == q[Len(q)]

\* C3: in every run the values passed to the progress callback are
\* non-decreasing and lie in [0,1], the first is 0.05, and on success the
\* last is exactly 1.0.
C3_Progress ==
    /\ \A k \in 1..Len(progressLog) :
          /\ FracLE(Frac(0, 1), progressLog[k])
          /\ FracLE(progressLog[k], Frac(1, 1))
          /\ k > 1 => FracLE(progressLog[k - 1], progressLog[k])
    /\ pc # "idle" => /\ Len(progressLog) >= 1
                      /\ FracEq(progressLog[1], Frac(1, 20))
    /\ pc = "resolved" => FracEq(Last(progressLog), Frac(1, 1))

\* a successful run whose pointCount is a multiple of the chunk size and
\* that reported from inside the loop
C3_Witness ==
    /\ pc = "resolved"
    /\ pointCount > Chunk
    /\ pointCount % Chunk = 0
    /\ \E k \in 1..Len(progressLog) :
          /\ ~FracLE(progressLog[k], Frac(1, 2))
          /\ ~FracLE(Frac(9, 10), progressLog[k])

\* the failures of reading the source, of the header check and of decoding
IngestErrors ==
    {"NetworkError", "HTTPError", "ReadError", "HeaderRangeError",
     "FormatError", "DecodeError"}

\* C4: ingestion is all-or-nothing.  A call that fails while reading the
\* source, checking the header or decoding rejects with that error, returns
\* no PointCloudData and reports no progress after the initial 0.05 (never
\* 1.0); the step that rejects adds no layer, and loadLayer shows the error
\* and clears the loading flag.
C4_AllOrNothing ==
    /\ [](pc = "rejected" =>
            /\ ~result.present
            /\ ~loading
            /\ alert = error
            /\ \A k \in 1..Len(progressLog) : ~FracEq(progressLog[k], Frac(1, 1))
            /\ error \in IngestErrors => progressLog = <<Frac(1, 20)>>)
    /\ [][pc' = "rejected" => layers' = layers]_vars

\* a call has been rejected by the header check
C4_Witness == pc = "rejected" /\ error = "FormatError" /\ ~loading /\ layers = <<>>

\* the record set the decoder returned has no position attribute, or declares
\* a vertexCount that is zero or negative
BadRecordSet == ~mesh.hasPosition \/ mesh.vertexCount <= 0

\* C5: loadPointCloud fails with an error, and returns no PointCloudData,
\* whenever the decoded record set has no position attribute or declares a
\* vertexCount that is zero or negative.
C5_RejectsBadRecordSet ==
    BadRecordSet => (pc # "resolved" /\ ~result.present)

\* C6: when the header check finds LAS 1.4 with a point format id (masked
\* with 0x3f) above 3, the call is rejected with the format error and the
\* decoder has not been invoked in that run.
C6_NoDecodeWhenUnsupported ==
    (header.versionMajor = 1 /\ header.versionMinor = 4 /\ header.pointFormatId > 3) =>
        /\ decoderCalls = 0
        /\ pc = "rejected"
        /\ error = "FormatError"

\* a format byte whose high bits are set and whose masked id is above 3 has
\* been rejected
C6_Witness ==
    /\ pc = "rejected"
    /\ error = "FormatError"
    /\ arrayBuffer.formatByte = 134
    /\ header.pointFormatId = 6
    /\ decoderCalls = 0

\* the reprojected coordinates of output point idx, from the decoded record
\* set: the source point idx * step
RetainedLng(idx) ==
    Forward(mesh.POSITION[idx * step * 3 + 1], mesh.POSITION[idx * step * 3 + 2])[1]
RetainedLat(idx) ==
    Forward(mesh.POSITION[idx * step * 3 + 1], mesh.POSITION[idx * step * 3 + 2])[2]
RetainedZ(idx) == mesh.POSITION[idx * step * 3 + 3]

Outputs == 0..(result.pointCount - 1)

\* C7: after a successful call with pointCount >= 1 the bounds enclose the
\* retained points tightly: on each axis min <= the reprojected coordinate
\* of every retained point <= max, and min and max are each attained by a
\* retained point.
C7_TightBounds ==
    (result.present /\ result.pointCount >= 1) =>
        LET b == result.bounds
        IN  /\ \A k \in Outputs :
                  /\ b.minX <= RetainedLng(k) /\ RetainedLng(k) <= b.maxX
                  /\ b.minY <= RetainedLat(k) /\ RetainedLat(k) <= b.maxY
                  /\ b.minZ <= RetainedZ(k) /\ RetainedZ(k) <= b.maxZ
            /\ \E k \in Outputs : RetainedLng(k) = b.minX
            /\ \E k \in Outputs : RetainedLng(k) = b.maxX
            /\ \E k \in Outputs : RetainedLat(k) = b.minY
            /\ \E k \in Outputs : RetainedLat(k) = b.maxY
            /\ \E k \in Outputs : RetainedZ(k) = b.minZ
            /\ \E k \in Outputs : RetainedZ(k) = b.maxZ

\* a decimated cloud whose retained points differ on every axis
C7_Witness ==
    /\ result.present
    /\ step = 2
    /\ result.pointCount >= 2
    /\ result.bounds.minX < result.bounds.maxX
    /\ result.bounds.minY < result.bounds.maxY
    /\ result.bounds.minZ < result.bounds.maxZ

\* C8: the returned coordinateOrigin is ((minX+maxX)/2, (minY+maxY)/2, 0) of
\* the final bounds, and when it is returned the reprojection loop has
\* visited every retained point.
C8_OriginIsMidpoint ==
    result.present =>
        /\ result.bounds = bounds
        /\ visited = result.pointCount
        /\ i >= result.pointCount
        /\ result.coordinateOrigin[3] = 0
        /\ result.pointCount >= 1 =>
              /\ 2 * result.coordinateOrigin[1] = bounds.minX + bounds.maxX
              /\ 2 * result.coordinateOrigin[2] = bounds.minY + bounds.maxY
        \* no point: (Infinity + -Infinity) / 2
        /\ result.pointCount = 0 =>
              /\ result.coordinateOrigin[1] = NaN
              /\ result.coordinateOrigin[2] = NaN

\* a cloud with distinct corners has been returned
C8_Witness ==
    /\ result.present
    /\ result.pointCount >= 2
    /\ bounds.minX < bounds.maxX
    /\ bounds.minY < bounds.maxY
    /\ result.coordinateOrigin[1] # bounds.minX

\* |got - want| is within the relative precision of a 32-bit float of
\* magnitude scale
WithinF32(got, want, scale) == Abs(got - want) <= Abs(scale) \div TwoTo24

HorizontalRoundTrip(k) ==
    LET o == result.coordinateOrigin
        p == result.positions
    IN  /\ WithinF32(o[1] + p[k * 3 + 1], RetainedLng(k), RetainedLng(k) - o[1])
        /\ WithinF32(o[2] + p[k * 3 + 2], RetainedLat(k), RetainedLat(k) - o[2])

\* C9 as stated: origin + horizontal offsets give back the reprojected
\* longitude and latitude within floating tolerance, and positions[3i+2] is
\* the elevation unchanged.
C9_ElevationUnchanged ==
    result.present =>
        \A k \in Outputs :
            /\ HorizontalRoundTrip(k)
            /\ result.positions[k * 3 + 3] = RetainedZ(k)

\* C9 amended: origin + horizontal offsets give back the reprojected
\* longitude and latitude within 32-bit floating tolerance, and
\* positions[3i+2] is the elevation itself (no origin subtracted) within the
\* same tolerance.
C9_OffsetRoundTrip ==
    result.present =>
        \A k \in Outputs :
            /\ HorizontalRoundTrip(k)
            /\ WithinF32(result.positions[k * 3 + 3], RetainedZ(k), RetainedZ(k))

\* a cloud in which an offset and an elevation were rounded by the 32-bit
\* store
C9_Witness ==
    /\ result.present
    /\ \E k \in Outputs :
          /\ result.coordinateOrigin[1] + result.positions[k * 3 + 1] # RetainedLng(k)
          /\ result.positions[k * 3 + 3] # RetainedZ(k)

\* C10: in every returned PointCloudData positions has 3 * pointCount
\* entries, and each optional buffer is present exactly when the source had
\* the attribute and then has pointCount entries (4 * pointCount for colors).
C10_BufferLengths ==
    result.present =>
        /\ Len(result.positions) = 3 * result.pointCount
        /\ result.hasIntensities = mesh.hasIntensity
        /\ result.hasIntensities => Len(result.intensities) = result.pointCount
        /\ result.hasClassifications = mesh.hasClassification
        /\ result.hasClassifications => Len(result.classifications) = result.pointCount
        /\ result.hasColors = (mesh.colorSize > 0)
        /\ result.hasColors => Len(result.colors) = 4 * result.pointCount

\* a decimated cloud of an RGB source with intensities and no
\* classifications
C10_Witness ==
    /\ result.present
    /\ step = 2
    /\ result.pointCount >= 2
    /\ mesh.colorSize = 3
    /\ result.hasColors
    /\ result.hasIntensities
    /\ ~result.hasClassifications

\* C11: during the reprojection loop at most Chunk points are processed
\* between two consecutive suspensions and before the first one, and every
\* suspension is entered by a step that reports progress
C11_ChunkedYield ==
    /\ [](pc \in {"loop", "yieldLoop", "yield3"} => sinceYield <= Chunk)
    /\ [][(pc' \in {"yieldLoop", "yield3"} /\ pc' # pc)
            => progressLog' = Append(progressLog, progress')]_vars

\* C12: every colormap of the catalogue a sample is taken from has at least
\* two stops, strictly increasing positions, its first stop at 0.0 and its
\* last at 1.0, and every channel of every stop is an integer in 0..255
C12_WellFormedCatalogue ==
    cmColor # NoColor =>
        \A name \in ColormapNames :
            LET stops == COLORMAPS[name]
            IN  /\ Len(stops) >= 2
                /\ \A k \in 1..(Len(stops) - 1) : stops[k][1] < stops[k + 1][1]
                /\ stops[1][1] = 0
                /\ stops[Len(stops)][1] = Milli
                /\ \A k \in 1..Len(stops) : \A c \in 2..4 : stops[k][c] \in 0..255

\* the catalogue has been used: a map with unevenly spaced stops (jet) was
\* sampled inside its second bracket
C12_Witness ==
    /\ cmName = "jet"
    /\ cmT = Frac(200, Milli)
    /\ cmColor # NoColor
    /\ Len(COLORMAPS[cmName]) = 6

\* the stops of a colormap that lie at position t
StopIndexAt(name, t) ==
    { k \in 1..Len(COLORMAPS[name]) : COLORMAPS[name][k][1] * t[2] = t[1] * Milli }

\* C13: a sample taken at a stop's own position is exactly that stop's
\* (r, g, b), for the first, the interior and the last stops alike
C13_StopExact ==
    cmColor # NoColor =>
        \A k \in StopIndexAt(cmName, cmT) :
            cmColor = <<COLORMAPS[cmName][k][2], COLORMAPS[cmName][k][3],
                        COLORMAPS[cmName][k][4]>>

\* terrain sampled at its interior stop 0.3, and gray at both of its ends
C13_Witness ==
    \/ /\ cmName = "terrain"
       /\ cmT = Frac(300, Milli)
       /\ cmColor = <<200, 200, 100>>
    \/ /\ cmName = "gray"
       /\ cmT \in {Frac(0, Milli), Frac(Milli, Milli)}
       /\ cmColor # NoColor

\* twice the distance, in units of 1 / (pos1 - pos0), between the channel
\* value c and the exact interpolation c0 + (c1 - c0) * (u - pos0) / (pos1 - pos0)
\* at the position u, in thousandths
TwiceError(c, c0, c1, u, pos0, pos1) ==
    2 * Abs(c * (pos1 - pos0) - (c0 * (pos1 - pos0) + (c1 - c0) * (u - pos0)))

\* C14: every sample is the component-wise linear interpolation between the
\* stops bracketing clamp(t, 0, 1), rounded to a nearest integer; so each
\* channel is an integer in 0..255, a negative t samples as 0 and a t above
\* 1 as 1, and viridis at 0.05 is (70, 18, 100)
C14_Interpolates ==
    (cmColor # NoColor /\ cmT[2] = Milli) =>
        LET stops == COLORMAPS[cmName]
            u == IF cmT[1] < 0 THEN 0 ELSE IF cmT[1] > Milli THEN Milli ELSE cmT[1]
        IN  /\ \E k \in 1..(Len(stops) - 1) :
                  /\ stops[k][1] <= u
                  /\ u <= stops[k + 1][1]
                  /\ \A c \in 1..3 :
                        TwiceError(cmColor[c], stops[k][c + 1], stops[k + 1][c + 1],
                                   u, stops[k][1], stops[k + 1][1])
                            <= stops[k + 1][1] - stops[k][1]
            /\ \A c \in 1..3 : cmColor[c] \in 0..255
            /\ cmT[1] < 0 => cmColor = sampleColormap(cmName, Frac(0, 1))
            /\ cmT[1] > Milli => cmColor = sampleColormap(cmName, Frac(1, 1))
            /\ (cmName = "viridis" /\ cmT = Frac(50, Milli)) => cmColor = <<70, 18, 100>>

\* viridis sampled half way between its first two stops
C14_Witness ==
    /\ cmName = "viridis"
    /\ cmT = Frac(50, Milli)
    /\ cmColor = <<70, 18, 100>>

\* C15: colorizePoints with scheme 'rgb' on a cloud without a color buffer
\* terminates and returns the buffer scheme 'elevation' returns for the same
\* cloud and colormap, and the fallback does not re-enter the rgb branch
C15_RgbFallsBackToElevation ==
    (settings.colorScheme = "rgb" /\ ~pointCloud.hasColors) =>
        /\ colorizeDepth <= 1
        /\ colorizePc # "thrown"
        /\ colorizePc = "returned" =>
              colorized = ElevationColors(pointCloud, settings.colormap)

\* C16: under the classification scheme with classifications present, a
\* point whose code has the flag false gets alpha 0, every other point gets
\* alpha 255 and the colour of its code in the table or (180,180,180) when
\* the code is not in it, and the buffer has an entry for every point
C16_ClassificationAlpha ==
    (/\ colorizePc = "returned"
     /\ settings.colorScheme = "classification"
     /\ pointCloud.hasClassifications) =>
        /\ Len(colorized) = 4 * pointCloud.pointCount
        /\ \A k \in 0..(pointCloud.pointCount - 1) :
              LET code == pointCloud.classifications[k + 1]
                  flags == settings.classificationVisibility
                  rgb == <<colorized[k * 4 + 1], colorized[k * 4 + 2],
                           colorized[k * 4 + 3]>>
                  alpha == colorized[k * 4 + 4]
              IN  IF code \in DOMAIN flags /\ flags[code] = FALSE
                  THEN alpha = 0
                  ELSE /\ alpha = 255
                       /\ rgb = IF code \in DOMAIN CLASSIFICATION_COLORS
                                THEN CLASSIFICATION_COLORS[code]
                                ELSE <<180, 180, 180>>

\* four points with the codes 2, 7, 12, 17: ground hidden, code 12 (not in
\* the table) shown by a true flag, 7 and 17 shown without a flag
C16_Witness ==
    /\ colorizePc = "returned"
    /\ settings.colorScheme = "classification"
    /\ pointCloud.hasClassifications
    /\ pointCloud.classifications = <<2, 7, 12, 17>>
    /\ DOMAIN settings.classificationVisibility = {2, 12}
    /\ settings.classificationVisibility[2] = FALSE
    /\ settings.classificationVisibility[12] = TRUE
    /\ colorized = <<0, 0, 0, 0, 255, 0, 0, 255,
                     180, 180, 180, 255, 200, 200, 0, 255>>

\* C17: scheme 'intensity' without an intensity buffer and scheme
\* 'classification' without a classification buffer return a buffer in
\* which every point is (180,180,180,255), and raise no error
C17_GrayFallback ==
    (/\ colorizePc # "idle"
     /\ \/ settings.colorScheme = "intensity" /\ ~pointCloud.hasIntensities
        \/ settings.colorScheme = "classification" /\ ~pointCloud.hasClassifications) =>
        /\ colorizePc # "thrown"
        /\ colorizePc = "returned" =>
              /\ Len(colorized) = 4 * pointCloud.pointCount
              /\ \A k \in 0..(pointCloud.pointCount - 1) :
                    /\ colorized[k * 4 + 1] = 180
                    /\ colorized[k * 4 + 2] = 180
                    /\ colorized[k * 4 + 3] = 180
                    /\ colorized[k * 4 + 4] = 255

\* a cloud of four points with neither buffer, coloured by intensity
C17_Witness ==
    /\ colorizePc = "returned"
    /\ settings.colorScheme = "intensity"
    /\ ~pointCloud.hasIntensities
    /\ ~pointCloud.hasClassifications
    /\ pointCloud.pointCount = 4
    /\ Len(colorized) = 16

\* C18: getProfile returns an empty sequence whenever start equals end, for
\* every point cloud and width
C18_DegenerateIsEmpty ==
    (profilePc = "returned" /\ corridor.start = corridor.end) => profile = <<>>

\* a zero-length corridor through the middle of a cloud of four points, one
\* of them at the clicked position
C18_Witness ==
    /\ profilePc = "returned"
    /\ corridor.start = <<0, 0>>
    /\ corridor.end = <<0, 0>>
    /\ corridor.width = 5
    /\ pointCloud.pointCount = 4
    /\ profile = <<>>

\* the position of point k (0-based) and the ends of the corridor, in metres
\* east and north of the origin (the loaded clouds have it on the equator)
PointXY(k) == <<pointCloud.positions[k * 3 + 1], pointCloud.positions[k * 3 + 2]>>
StartXY == <<corridor.start[1] - pointCloud.coordinateOrigin[1],
             corridor.start[2] - pointCloud.coordinateOrigin[2]>>
EndXY == <<corridor.end[1] - pointCloud.coordinateOrigin[1],
           corridor.end[2] - pointCloud.coordinateOrigin[2]>>

Dot(u, v) == u[1] * v[1] + u[2] * v[2]
Cross(u, v) == u[1] * v[2] - u[2] * v[1]
Diff(u, v) == <<u[1] - v[1], u[2] - v[2]>>

\* 0 <= distance <= length and |offset| <= width / 2 for point k, with
\* distance = (P - S).(E - S) / |E - S| and offset = (E - S) x (P - S) / |E - S|,
\* written without the square root
Inside(k) ==
    LET axis == Diff(EndXY, StartXY)
        v == Diff(PointXY(k), StartXY)
    IN  /\ 0 <= Dot(v, axis)
        /\ Dot(v, axis) <= Dot(axis, axis)
        /\ 4 * Cross(axis, v) * Cross(axis, v)
              <= corridor.width * corridor.width * Dot(axis, axis)

\* the entry e is the ProfilePoint of point k: its distance squared is
\* ((P - S).(E - S))^2 / |E - S|^2 and its elevation is the point's z
EntryOf(e, k) ==
    LET axis == Diff(EndXY, StartXY)
        v == Diff(PointXY(k), StartXY)
    IN  /\ e.distance[1] * e.distance[1] * Dot(axis, axis)
              = Dot(v, axis) * Dot(v, axis) * e.distance[2] * e.distance[2]
        /\ e.elevation = pointCloud.positions[k * 3 + 3]

\* C19: for a corridor of positive length the profile has one ProfilePoint
\* for exactly the points with 0 <= distance <= length and |offset| <=
\* width / 2; every returned distance is >= 0; and a single point at
\* distance 10, offset 0 of a 2 m wide, 20 m long corridor is the sole result
C19_ExactlyTheCorridor ==
    (/\ profilePc = "returned"
     /\ corridor.start # corridor.end) =>
        LET inside == { k \in 0..(pointCloud.pointCount - 1) : Inside(k) }
        IN  /\ Len(profile) = Cardinality(inside)
            /\ \A k \in inside : \E j \in 1..Len(profile) : EntryOf(profile[j], k)
            /\ \A j \in 1..Len(profile) : \E k \in inside : EntryOf(profile[j], k)
            /\ \A j \in 1..Len(profile) :
                  /\ profile[j].distance[2] > 0
                  /\ profile[j].distance[1] >= 0
            /\ (/\ pointCloud.pointCount = 1
                /\ corridor.start = <<-10, 0>>
                /\ corridor.end = <<10, 0>>
                /\ corridor.width = 2) =>
                  /\ Len(profile) = 1
                  /\ FracEq(profile[1].distance, Frac(10, 1))

\* a diagonal corridor of 10 m, 5 m wide, over the cloud of four points:
\* two of them are inside, one before the start and one beyond the end
C19_Witness ==
    /\ profilePc = "returned"
    /\ corridor = [start |-> <<-4, -3>>, end |-> <<4, 3>>, width |-> 5]
    /\ pointCloud.pointCount = 4
    /\ Len(profile) = 2
    /\ FracEq(profile[1].distance, Frac(5, 1))
    /\ FracEq(profile[2].distance, Frac(41, 5))

\* C20: the returned profile is ordered by distance ascending
C20_SortedByDistance ==
    profilePc = "returned" =>
        \A j \in 1..(Len(profile) - 1) :
            profile[j].distance[1] * profile[j + 1].distance[2]
                <= profile[j + 1].distance[1] * profile[j].distance[2]

\* a corridor along the equator that holds all four points of a cloud,
\* returned in an order that differs from the order of the buffer
C20_Witness ==
    /\ profilePc = "returned"
    /\ pointCloud.pointCount = 4
    /\ corridor = [start |-> <<-10, 0>>, end |-> <<10, 0>>, width |-> 5]
    /\ Len(profile) = 4
    /\ profile[1].elevation = 0
    /\ profile[4].elevation = 10

\* ---------------------------------------------------------------- C21
\* the seven fields of two PointCloudData agree
SameData(a, b) ==
    /\ a.positions = b.positions
    /\ a.colors = b.colors
    /\ a.intensities = b.intensities
    /\ a.classifications = b.classifications
    /\ a.pointCount = b.pointCount
    /\ a.bounds = b.bounds
    /\ a.coordinateOrigin = b.coordinateOrigin

\* C21: a PointCloudData is never modified after loadPointCloud returns it:
\* whatever colorizePoints calls (under each scheme), getProfile calls and
\* layer updates and removals have taken place, the cloud of every layer and
\* the cloud handed to the calls have the positions, colors, intensities,
\* classifications, pointCount, bounds and coordinateOrigin that
\* loadPointCloud returned for the file.
C21_CloudNeverModified ==
    /\ \A k \in 1..Len(layers) :
          /\ layers[k].pointCloud.present
          /\ SameData(layers[k].pointCloud, PointCloudOf(mesh, Cap))
    /\ pointCloud.present => SameData(pointCloud, PointCloudOf(mesh, Cap))

\* a layer's cloud has been coloured and profiled, and the layer hidden
\* and shifted
C21_Witness ==
    /\ colorizePc = "returned"
    /\ profilePc = "returned"
    /\ Len(profile) >= 2
    /\ Len(layers) = 1
    /\ ~layers[1].visible
    /\ layers[1].zOffset = 5
    /\ layers[1].source = "local"
    /\ pc = "resolved"
    /\ source = "url"

\* ---------------------------------------------------------------- C22
\* C22: decimation is uniform and deterministic: output point k of a returned
\* cloud takes its position, its intensity, its classification and its
\* colour from the one source index k * step, the classification code
\* copied as it is; and every cloud returned for the same decoded input is
\* the same PointCloudData.
C22_UniformDecimation ==
    result.present =>
        /\ \A k \in Outputs :
              LET o == result.coordinateOrigin
                  src == k * step
              IN  /\ result.positions[k * 3 + 1] =
                        StoreF32(Minus(RetainedLng(k), o[1]))
                  /\ result.positions[k * 3 + 2] =
                        StoreF32(Minus(RetainedLat(k), o[2]))
                  /\ result.positions[k * 3 + 3] = StoreF32(RetainedZ(k))
                  /\ result.hasIntensities =>
                        result.intensities[k + 1] = Frac(RawIntensityAt(src), 65535)
                  /\ result.hasClassifications =>
                        result.classifications[k + 1] = RawClassificationAt(src)
                  /\ result.hasColors =>
                        \A c \in 0..2 :
                            result.colors[k * 4 + c + 1] = RawColorAt(src, c)
        /\ \A a, b \in 1..Len(layers) : layers[a].pointCloud = layers[b].pointCloud
        /\ \A a \in 1..Len(layers) : layers[a].pointCloud = result

\* the same decimated input has been loaded twice, with every attribute
C22_Witness ==
    /\ result.present
    /\ Len(layers) = 2
    /\ step = 2
    /\ result.pointCount >= 2
    /\ result.hasColors
    /\ result.hasIntensities
    /\ result.hasClassifications
    /\ result.positions[6] # result.positions[3]

\* ---------------------------------------------------------------- C30
\* C30: every source index read by the loader is in range: for a record set
\* of vertexCount >= 1 points and every output index below pointCount, the
\* source index i * step is below vertexCount, so the reads of the position
\* triple in the loop and of the colour at Step 7 stay inside the decoded
\* buffers; the same holds of the stride arithmetic with the source's cap.
C30_ReadsInRange ==
    /\ (pc = "loop" /\ mesh.vertexCount >= 1) =>
          /\ i < pointCount
          /\ i * step < mesh.vertexCount
          /\ i * step * 3 + 3 <= Len(mesh.POSITION)
    /\ (pc = "yield3" /\ mesh.vertexCount >= 1) =>
          \A k \in 0..(pointCount - 1) : k * step < mesh.vertexCount
    /\ \A t \in SourceTotals :
          (CountOf(t, StepOf(t, MAX_POINTS)) - 1) * StepOf(t, MAX_POINTS) < t

\* the last iteration of a decimating loop reads the last source point
C30_Witness ==
    /\ pc = "loop"
    /\ step = 2
    /\ i = pointCount - 1
    /\ i * step = mesh.vertexCount - 1

\* ---------------------------------------------------------------- C23
\* the cloud's points all share one elevation
Flat(d) == d.pointCount >= 1 /\ d.bounds.maxZ = d.bounds.minZ

\* the colour of the colormap's first stop
FirstStop(name) ==
    LET s == COLORMAPS[name][1] IN <<s[2], s[3], s[4]>>

\* the colour the elevation scheme is said to give point k
ElevationColorAt(d, name, k) ==
    sampleColormap(name, Quotient(d.positions[k * 3 + 3] - d.bounds.minZ,
                                  OrOne(d.bounds.maxZ - d.bounds.minZ)))

\* bytes 4k .. 4k+2 of the returned buffer
ColorizedAt(k) == <<colorized[k * 4 + 1], colorized[k * 4 + 2], colorized[k * 4 + 3]>>

ElevationCall == colorizePc # "idle" /\ settings.colorScheme = "elevation"

\* under the elevation scheme the call returns normally, every point has
\* alpha 255 and the colour sampleColormap(colormap, (z - minZ) / range),
\* range being maxZ - minZ or 1 when that is zero
ElevationNormalised ==
    ElevationCall =>
        /\ colorizePc \in {"running", "returned"}
        /\ colorizePc = "returned" =>
              /\ Len(colorized) = 4 * pointCloud.pointCount
              /\ \A k \in 0..(pointCloud.pointCount - 1) :
                    /\ colorized[k * 4 + 4] = 255
                    /\ ColorizedAt(k) =
                          ElevationColorAt(pointCloud, settings.colormap, k)

\* C23 as stated: ... so for a cloud whose points all share one elevation
\* every point gets the colormap's first-stop colour.
C23_FlatIsFirstStop ==
    /\ ElevationNormalised
    /\ (ElevationCall /\ colorizePc = "returned" /\ Flat(pointCloud)) =>
          \A k \in 0..(pointCloud.pointCount - 1) :
              ColorizedAt(k) = FirstStop(settings.colormap)

\* C23, amended: under the elevation scheme every point gets alpha 255 and
\* the colour sampleColormap(colormap, (z - minZ) / range), z being the
\* stored 32-bit elevation and minZ the unrounded one; for a cloud whose
\* points all share one elevation every point gets the same colour, and it
\* is the first-stop colour whenever the stored elevation does not exceed
\* minZ, as when the elevation is exactly a 32-bit float.
C23_ElevationScheme ==
    /\ ElevationNormalised
    /\ (ElevationCall /\ colorizePc = "returned" /\ Flat(pointCloud)) =>
          \A k \in 0..(pointCloud.pointCount - 1) :
              /\ ColorizedAt(k) = ColorizedAt(0)
              /\ pointCloud.positions[k * 3 + 3] <= pointCloud.bounds.minZ =>
                    ColorizedAt(k) = FirstStop(settings.colormap)

\* a two-point cloud at one elevation has been coloured by elevation
C23_Witness ==
    /\ ElevationCall
    /\ colorizePc = "returned"
    /\ Flat(pointCloud)
    /\ pointCloud.pointCount = 2
    /\ ColorizedAt(1) = FirstStop(settings.colormap)

\* ---------------------------------------------------------------- C24
\* the entry e carries the attributes stored at index k of the cloud, or the
\* default of each attribute the cloud lacks
AttributesOf(e, k) ==
    /\ e.color = IF pointCloud.hasColors
                 THEN <<pointCloud.colors[k * 4 + 1], pointCloud.colors[k * 4 + 2],
                        pointCloud.colors[k * 4 + 3]>>
                 ELSE <<255, 255, 255>>
    /\ e.intensity = IF pointCloud.hasIntensities
                     THEN pointCloud.intensities[k + 1]
                     ELSE Frac(0, 1)
    /\ e.classification = IF pointCloud.hasClassifications
                          THEN pointCloud.classifications[k + 1]
                          ELSE 0

\* C24: getProfile on a cloud that lacks colors, intensities or
\* classifications returns normally, and every ProfilePoint carries the
\* default of each missing attribute, colour (255,255,255), intensity 0,
\* classification 0, and for each attribute present the value stored at the
\* index of the point it was made from.
C24_AttributeDefaults ==
    profilePc = "returned" =>
        /\ \A j \in 1..Len(profile) :
              /\ \E k \in 0..(pointCloud.pointCount - 1) :
                    Inside(k) /\ EntryOf(profile[j], k) /\ AttributesOf(profile[j], k)
              /\ ~pointCloud.hasColors => profile[j].color = <<255, 255, 255>>
              /\ ~pointCloud.hasIntensities => profile[j].intensity = Frac(0, 1)
              /\ ~pointCloud.hasClassifications => profile[j].classification = 0
        /\ \A k \in 0..(pointCloud.pointCount - 1) :
              (corridor.start # corridor.end /\ Inside(k)) =>
                  \E j \in 1..Len(profile) :
                      EntryOf(profile[j], k) /\ AttributesOf(profile[j], k)

\* a profile of two points over a cloud with classifications only
C24_Witness ==
    /\ profilePc = "returned"
    /\ ~pointCloud.hasColors
    /\ ~pointCloud.hasIntensities
    /\ pointCloud.hasClassifications
    /\ Len(profile) >= 2
    /\ profile[1].color = <<255, 255, 255>>
    /\ profile[1].intensity = Frac(0, 1)
    /\ profile[1].classification # profile[2].classification

\* ---------------------------------------------------------------- C25
\* a loadPointCloud call is in flight
InFlight == pc \notin {"idle", "resolved", "rejected"}

\* the step handles one more user event, of this kind
Handles(kind) == lastEvent' # lastEvent /\ lastEvent'.kind = kind

\* C25: at most one ingestion is in flight: the loading flag is set exactly
\* while a call is in flight, and a load request handled while it is set
\* starts no call, adds no layer and leaves the call in flight as it is,
\* wherever the call is suspended.
C25_SingleIngestion ==
    /\ [](loading <=> InFlight)
    /\ [][(Handles("load") /\ loading) =>
              /\ lastEvent'.early
              /\ UNCHANGED <<appVars, callVars>>]_vars
    /\ [][(Handles("load") /\ ~loading) =>
              /\ ~lastEvent'.early
              /\ loading'
              /\ pc' \in {"fetch", "read"}
              /\ layers' = layers]_vars

\* a load request has been turned away in the middle of the reprojection
\* loop of the call in flight
C25_Witness ==
    /\ lastEvent.kind = "load"
    /\ lastEvent.early
    /\ loading
    /\ pc = "loop"
    /\ i = 2

\* ---------------------------------------------------------------- C26
\* C26: every load that sets loading eventually clears it, whether the call
\* resolves or rejects: once the call has settled the flag is clear, and a
\* set flag is always followed by a clear one.
C26_LoadingClears ==
    /\ [](pc \in {"resolved", "rejected"} => ~loading)
    /\ (loading ~> ~loading)

\* a load has failed after an earlier one succeeded, and the flag is clear
C26_Witness ==
    /\ pc = "rejected"
    /\ error = "NetworkError"
    /\ ~loading
    /\ Len(layers) = 1

\* ---------------------------------------------------------------- C27
\* the step is the completion of a successful call
Completes == pc = "yield3" /\ pc' = "resolved"

\* C27: the completion of a call appends exactly one layer, holding the
\* returned cloud, after the layers that exist at that time, with every
\* removal and update made during the call in them, and changes no other
\* layer; no other step of the call touches the layers.
C27_AppendsAtCompletion ==
    /\ [][Completes =>
              /\ Len(layers') = Len(layers) + 1
              /\ \A k \in 1..Len(layers) : layers'[k] = layers[k]
              /\ layers'[Len(layers')] = NewLayer(source, result')
              /\ result'.present]_vars
    /\ [][(pc' # pc /\ ~Completes) => layers' = layers]_vars

\* a call has completed below a layer that was hidden and shifted
C27_Witness ==
    /\ pc = "resolved"
    /\ Len(layers) = 2
    /\ ~layers[1].visible
    /\ layers[1].zOffset = 5
    /\ layers[2] = NewLayer(source, result)

\* ---------------------------------------------------------------- C28
\* C28: the mode of the cross-section tool changes only so: start-profile
\* sets check_start from any mode; stop-profile sets idle from any mode; a
\* map click moves check_start to check_end with the clicked point as start,
\* and check_end to complete with the clicked point as end and width 5; a
\* map click in idle or complete changes nothing; no other step changes the
\* tool's state.
C28_ModeTransitions ==
    /\ [][Handles("start") => crossSection' = [mode |-> "check_start"]]_vars
    /\ [][Handles("stop") => crossSection' = [mode |-> "idle"]]_vars
    /\ [][Handles("click") =>
              CASE crossSection.mode = "check_start" ->
                      crossSection' = [mode |-> "check_end", start |-> lastEvent'.at]
                [] crossSection.mode = "check_end" ->
                      crossSection' = [mode |-> "complete",
                                       start |-> crossSection.start,
                                       end |-> lastEvent'.at,
                                       width |-> 5]
                [] OTHER -> UNCHANGED <<crossSection, profileData>>]_vars
    /\ [][(Handles("load") \/ lastEvent' = lastEvent) =>
              crossSection' = crossSection]_vars

\* a section has been drawn from west to east and clicked on again
C28_Witness ==
    /\ crossSection = [mode |-> "complete", start |-> <<-10, 0>>,
                       end |-> <<10, 0>>, width |-> 5]
    /\ lastEvent.kind = "click"
    /\ lastEvent.at = <<-10, 0>>

\* ---------------------------------------------------------------- C29
\* C29: in every reachable state a non-empty profileData implies the mode
\* complete: starting or stopping a profile clears profileData, and profile
\* points are only ever set by the step from check_end to complete.
C29_ProfileOnlyWhenComplete ==
    /\ [](profileData # <<>> => crossSection.mode = "complete")
    /\ [][(Handles("start") \/ Handles("stop")) => profileData' = <<>>]_vars
    /\ [][(profileData' # profileData /\ profileData' # <<>>) =>
              /\ crossSection.mode = "check_end"
              /\ crossSection'.mode = "complete"]_vars

\* the profile of the survey is shown on a complete section
C29_Witness ==
    /\ crossSection.mode = "complete"
    /\ lastEvent.kind = "click"
    /\ Len(profileData) >= 3
    /\ profileData[2].elevation = 5

============================================================================
